---- MODULE Spec2Model ----
(***************************************************************************)
(* State-machine model of the NES emulator core in src/src/components:    *)
(* the PPU timing and register state machine (ppu.rs), the bus address    *)
(* decoder (bus.rs), the joypad latch (joypads.rs) and the CPU            *)
(* interpreter (cpu.rs, assembly.rs).                                      *)
(*                                                                         *)
(* Every Rust struct is a record with the struct's field names, and every *)
(* method is an operator from the receiver's value to its new value (and  *)
(* its return value).  Ownership follows the source: the CPU value holds  *)
(* the BUS value in field bus, which holds the PPU value in field ppu.    *)
(* Fixed-size zero-initialised arrays ([u8; 2048] ...) are functions      *)
(* whose domain holds the indices written so far; an index outside the    *)
(* domain reads the initial 0.                                             *)
(***************************************************************************)
EXTENDS Integers, Sequences, FiniteSets, TLC

VARIABLES
    overflow_checks, \* the build: TRUE when integer overflow panics (debug), FALSE when it wraps
    cpu,    \* the CPU value (registers, bus, bus.ppu)
    loop,   \* position of CPU::run_with_callback: "poll", "fetch", "ended", "panic"
    last,   \* the operation the last step performed, its inputs and its return value
    dots,   \* history: PPU dots requested so far by direct PPU::tick calls
    hist    \* history: what the operations so far were, as each specification records it

vars == <<overflow_checks, cpu, loop, last, dots, hist>>

(***************************************************************************)
(* Bounds of the explored behaviours.                                      *)
(***************************************************************************)
\* PPU::tick calls in SpecFrame draw their dot count from 1..MaxSmallTick,
\* from the multiples of TickStride, and from the largest u8.
MaxSmallTick == 3
TickStride == 86

(***************************************************************************)
(* Machine integers.                                                       *)
(***************************************************************************)
Byte == 0..255

Pow2(n) == 2 ^ n

\* bit n of v
Bit(v, n) == (v \div Pow2(n)) % 2

\* bitflags set(flag, on) for the single-bit flag 2^n
SetBit(v, n, on) == v - Bit(v, n) * Pow2(n) + (IF on THEN Pow2(n) ELSE 0)

\* u8 wrapping_add / wrapping_sub
WrapAdd8(a, b) == (a + b) % 256
WrapSub8(a, b) == (a - b + 256) % 256

\* u16 wrapping_add
WrapAdd16(a, b) == (a + b) % 65536

RECURSIVE BitAnd(_, _)
BitAnd(a, b) ==
    IF a = 0 \/ b = 0 THEN 0
    ELSE (a % 2) * (b % 2) + 2 * BitAnd(a \div 2, b \div 2)

RECURSIVE BitOr(_, _)
BitOr(a, b) ==
    IF a = 0 THEN b
    ELSE IF b = 0 THEN a
    ELSE (IF a % 2 = 1 \/ b % 2 = 1 THEN 1 ELSE 0) + 2 * BitOr(a \div 2, b \div 2)

RECURSIVE BitXor(_, _)
BitXor(a, b) ==
    IF a = 0 THEN b
    ELSE IF b = 0 THEN a
    ELSE ((a + b) % 2) + 2 * BitXor(a \div 2, b \div 2)

\* a zero-initialised array read at index i
ArrayGet(arr, i) == IF i \in DOMAIN arr THEN arr[i] ELSE 0

\* a zero-initialised array with index i set to v
ArraySet(arr, i, v) ==
    IF v = 0 THEN [j \in (DOMAIN arr) \ {i} |-> arr[j]]
    ELSE [j \in (DOMAIN arr) \cup {i} |-> IF j = i THEN v ELSE arr[j]]

\* [0; N]
ZeroArray == <<>>

\* the value of a run that has not panicked
NoPanic == ""

\* `let value = ...;` followed by the statements Body that use it
Bind(value, Body(_)) == Body(value)

(***************************************************************************)
(* PPU (ppu.rs)                                                            *)
(***************************************************************************)
\* ControlRegister::GENERATE_NMI, StatusRegister::VBLANK_STARTED (bit 7)
\* StatusRegister::SPRITE_ZERO_HIT (bit 6), ControlRegister::VRAM_ADD_INCREMENT (bit 2)
GENERATE_NMI == 7
VBLANK_STARTED == 7
SPRITE_ZERO_HIT == 6
SPRITE_OVERFLOW == 5
VRAM_ADD_INCREMENT == 2

\* the dots of one scanline and the scanlines of one frame (PPU::tick)
DotsPerLine == 341
VblankLine == 241
LinesPerFrame == 262

\* Option<u8>
None == <<>>
Some(v) == <<v>>

\* PPU::new
PPU_new(chr_rom, mirroring) ==
    [ chr_rom |-> chr_rom,
      mirroring |-> mirroring,
      control |-> 0,
      mask |-> 0,
      status |-> 0,
      oam_address |-> 0,
      scroll |-> [scroll_x |-> 0, scroll_y |-> 0, latch |-> FALSE],
      address |-> [high |-> 0, low |-> 0, high_pointer |-> TRUE],
      vram |-> ZeroArray,
      oam_data |-> ZeroArray,
      palette_table |-> ZeroArray,
      internal_data_buf |-> 0,
      cycles |-> 0,
      scanline |-> 0,
      nmi_interrupt |-> None,
      frames |-> 0,         \* history: the number of times tick returned true
      panic |-> NoPanic ]   \* the message of the panic that ended the session

\* ControlRegister::generate_vblank_nmi
generate_vblank_nmi(control) == Bit(control, GENERATE_NMI) = 1

\* StatusRegister::is_in_vblank
is_in_vblank(status) == Bit(status, VBLANK_STARTED) = 1

\* a faulty vblank start that raises the request whatever the control register says
TickVblankStart_AlwaysRaises(p) ==
    [p EXCEPT !.status = SetBit(SetBit(@, VBLANK_STARTED, TRUE), SPRITE_ZERO_HIT, FALSE),
              !.nmi_interrupt = Some(1)]

\* the body of `if self.scanline == 241 { ... }` in PPU::tick
TickVblankStart(p) ==
    [p EXCEPT !.status = SetBit(SetBit(@, VBLANK_STARTED, TRUE), SPRITE_ZERO_HIT, FALSE),
              !.nmi_interrupt = IF generate_vblank_nmi(p.control) THEN Some(1) ELSE @]

\* a faulty frame end that leaves vblank-started set
TickFrameEnd_KeepsVblank(p) ==
    [p EXCEPT !.scanline = 0,
              !.nmi_interrupt = None,
              !.status = SetBit(@, SPRITE_ZERO_HIT, FALSE),
              !.frames = @ + 1]

\* a faulty frame end that leaves a pending NMI request in place
TickFrameEnd_KeepsRequest(p) ==
    [p EXCEPT !.scanline = 0,
              !.status = SetBit(SetBit(@, SPRITE_ZERO_HIT, FALSE), VBLANK_STARTED, FALSE),
              !.frames = @ + 1]

\* the body of `if self.scanline >= 262 { ... }` in PPU::tick, up to its return
TickFrameEnd(p) ==
    [p EXCEPT !.scanline = 0,
              !.nmi_interrupt = None,
              !.status = SetBit(SetBit(@, SPRITE_ZERO_HIT, FALSE), VBLANK_STARTED, FALSE),
              !.frames = @ + 1]

\* PPU::tick: the new PPU value and the returned bool
PPU_tick(p, cycles) ==
    LET c1 == p.cycles + cycles IN
    IF c1 >= DotsPerLine
    THEN LET p1 == [p EXCEPT !.cycles = c1 - DotsPerLine, !.scanline = @ + 1]
             p2 == IF p1.scanline = VblankLine THEN TickVblankStart(p1) ELSE p1
         IN  IF p2.scanline >= LinesPerFrame
             THEN [ppu |-> TickFrameEnd(p2), ret |-> TRUE]
             ELSE [ppu |-> p2, ret |-> FALSE]
    ELSE [ppu |-> [p EXCEPT !.cycles = c1], ret |-> FALSE]

\* a faulty poll that returns the request without taking it
PPU_poll_nmi_interrupt_NoTake(p) == [ppu |-> p, ret |-> p.nmi_interrupt]

\* PPU::poll_nmi_interrupt (Option::take)
PPU_poll_nmi_interrupt(p) ==
    [ppu |-> [p EXCEPT !.nmi_interrupt = None], ret |-> p.nmi_interrupt]

\* a faulty control write that raises the request outside vblank too
PPU_write_to_control_AnyTime(p, value) ==
    LET before_nmi_status == generate_vblank_nmi(p.control)
        p1 == [p EXCEPT !.control = value]
    IN  IF ~before_nmi_status /\ generate_vblank_nmi(p1.control)
        THEN [p1 EXCEPT !.nmi_interrupt = Some(1)]
        ELSE p1

\* PPU::write_to_control
PPU_write_to_control(p, value) ==
    LET before_nmi_status == generate_vblank_nmi(p.control)
        p1 == [p EXCEPT !.control = value]
    IN  IF ~before_nmi_status /\ generate_vblank_nmi(p1.control) /\ is_in_vblank(p1.status)
        THEN [p1 EXCEPT !.nmi_interrupt = Some(1)]
        ELSE p1

\* a faulty status read that leaves the scroll toggle alone
PPU_read_status_KeepsScrollLatch(p) ==
    [ppu |-> [p EXCEPT !.status = SetBit(@, VBLANK_STARTED, FALSE),
                       !.address.high_pointer = TRUE],
     ret |-> p.status]

\* PPU::read_status
PPU_read_status(p) ==
    [ppu |-> [p EXCEPT !.status = SetBit(@, VBLANK_STARTED, FALSE),
                       !.address.high_pointer = TRUE,
                       !.scroll.latch = FALSE],
     ret |-> p.status]

\* PPU::write_to_mask
PPU_write_to_mask(p, value) == [p EXCEPT !.mask = value]

\* PPU::write_to_oam_address
PPU_write_to_oam_address(p, value) == [p EXCEPT !.oam_address = value]

\* PPU::write_to_oam_data
PPU_write_to_oam_data(p, value) ==
    [p EXCEPT !.oam_data = ArraySet(@, p.oam_address, value),
              !.oam_address = WrapAdd8(@, 1)]

\* PPU::read_oam_data
PPU_read_oam_data(p) == ArrayGet(p.oam_data, p.oam_address)

\* ScrollRegister::write, as called by PPU::write_to_scroll
PPU_write_to_scroll(p, value) ==
    [p EXCEPT !.scroll = IF ~p.scroll.latch
                         THEN [@ EXCEPT !.scroll_x = value, !.latch = TRUE]
                         ELSE [@ EXCEPT !.scroll_y = value, !.latch = FALSE]]

\* AddressRegister::get
AddressRegister_get(r) == r.high * 256 + r.low

\* AddressRegister::set
AddressRegister_set(r, data) == [r EXCEPT !.high = data \div 256, !.low = data % 256]

\* the `if self.get() > 0x3fff { self.set(self.get() & 0x3fff) }` of update and increment
AddressRegister_mirror_down(r) ==
    IF AddressRegister_get(r) > \h3FFF
    THEN AddressRegister_set(r, BitAnd(AddressRegister_get(r), \h3FFF))
    ELSE r

\* a faulty update that leaves the write toggle where it was
AddressRegister_update_NoToggle(r, data) ==
    LET r1 == IF r.high_pointer THEN [r EXCEPT !.high = data] ELSE [r EXCEPT !.low = data]
    IN  AddressRegister_mirror_down(r1)

\* AddressRegister::update
AddressRegister_update(r, data) ==
    LET r1 == IF r.high_pointer THEN [r EXCEPT !.high = data] ELSE [r EXCEPT !.low = data]
        r2 == AddressRegister_mirror_down(r1)
    IN  [r2 EXCEPT !.high_pointer = ~r2.high_pointer]

\* a faulty increment that never carries into the high byte
AddressRegister_increment_NoCarry(r, inc) ==
    AddressRegister_mirror_down([r EXCEPT !.low = WrapAdd8(r.low, inc)])

\* AddressRegister::increment
AddressRegister_increment(r, inc) ==
    LET low == r.low
        r1 == [r EXCEPT !.low = WrapAdd8(r.low, inc)]
        r2 == IF low > r1.low THEN [r1 EXCEPT !.high = WrapAdd8(@, 1)] ELSE r1
    IN  AddressRegister_mirror_down(r2)

\* PPU::write_to_ppu_address
PPU_write_to_ppu_address(p, value) ==
    [p EXCEPT !.address = AddressRegister_update(@, value)]

\* ControlRegister::vram_address_increment
vram_address_increment(control) ==
    IF Bit(control, VRAM_ADD_INCREMENT) = 0 THEN 1 ELSE 32

\* PPU::increment_vram_address
PPU_increment_vram_address(p) ==
    [p EXCEPT !.address = AddressRegister_increment(@, vram_address_increment(p.control))]

\* the sizes of PPU.vram and PPU.palette_table
VramSize == 2048
PaletteSize == 32

\* a faulty mirroring that lays vertical cartridges out as horizontal ones
\* and horizontal cartridges as vertical ones
mirror_vram_address_Swapped(mirroring, address) ==
    LET mirrored_vram == BitAnd(address, \h2FFF)
        vram_index == mirrored_vram - \h2000
        name_table == vram_index \div \h400
    IN  CASE mirroring = "Horizontal" /\ name_table \in {2, 3} -> vram_index - \h800
          [] mirroring = "Vertical" /\ name_table = 2 -> vram_index - \h400
          [] mirroring = "Vertical" /\ name_table = 1 -> vram_index - \h400
          [] mirroring = "Vertical" /\ name_table = 3 -> vram_index - \h800
          [] OTHER -> vram_index

\* PPU::mirror_vram_address
mirror_vram_address(mirroring, address) ==
    LET mirrored_vram == BitAnd(address, \h2FFF)
        vram_index == mirrored_vram - \h2000
        name_table == vram_index \div \h400
    IN  CASE mirroring = "Vertical" /\ name_table \in {2, 3} -> vram_index - \h800
          [] mirroring = "Horizontal" /\ name_table = 2 -> vram_index - \h400
          [] mirroring = "Horizontal" /\ name_table = 1 -> vram_index - \h400
          [] mirroring = "Horizontal" /\ name_table = 3 -> vram_index - \h800
          [] OTHER -> vram_index

\* self.vram[i] = value, with Rust's bounds check
VramStore(p, i, value) ==
    IF i < VramSize THEN [p EXCEPT !.vram = ArraySet(@, i, value)]
    ELSE [p EXCEPT !.panic = "index out of bounds: vram"]

\* self.palette_table[i] = value, with Rust's bounds check
PaletteStore(p, i, value) ==
    IF i < PaletteSize THEN [p EXCEPT !.palette_table = ArraySet(@, i, value)]
    ELSE [p EXCEPT !.panic = "index out of bounds: palette_table"]

\* PPU::write_to_data
PPU_write_to_data(p, value) ==
    LET address == AddressRegister_get(p.address)
        p1 == CASE address <= \h1FFF -> p
                [] address \in \h2000..\h2FFF ->
                     VramStore(p, mirror_vram_address(p.mirroring, address), value)
                [] address \in \h3000..\h3EFF ->
                     [p EXCEPT !.panic = "not implemented: address shouldn't be used"]
                [] address \in {\h3F10, \h3F14, \h3F18, \h3F1C} ->
                     PaletteStore(p, (address - \h10) - \h3F00, value)
                [] address \in (\h3F00..\h3FFF) \ {\h3F10, \h3F14, \h3F18, \h3F1C} ->
                     PaletteStore(p, address - \h3F00, value)
                [] OTHER -> [p EXCEPT !.panic = "unexpected access to mirrored space"]
    IN  Bind(p1, LAMBDA q : IF q.panic # NoPanic THEN q ELSE PPU_increment_vram_address(q))

\* vec[i] of a Vec<u8> of length len, with Rust's bounds check
VecIndex(vec, i) == IF i < vec.len THEN [ok |-> TRUE, val |-> ArrayGet(vec.bytes, i)]
                    ELSE [ok |-> FALSE, val |-> 0]

\* PPU::read_data
PPU_read_data(p) ==
    LET address == AddressRegister_get(p.address) IN
    Bind(PPU_increment_vram_address(p), LAMBDA p1 :
    LET Buffered(cell) ==
            IF cell.ok
            THEN [ppu |-> [p1 EXCEPT !.internal_data_buf = cell.val],
                  ret |-> p1.internal_data_buf]
            ELSE [ppu |-> [p1 EXCEPT !.panic = "index out of bounds"], ret |-> 0]
        Palette(i) ==
            IF i < PaletteSize
            THEN [ppu |-> p1, ret |-> ArrayGet(p1.palette_table, i)]
            ELSE [ppu |-> [p1 EXCEPT !.panic = "index out of bounds: palette_table"], ret |-> 0]
    IN  CASE address <= \h1FFF -> Buffered(VecIndex(p1.chr_rom, address))
          [] address \in \h2000..\h2FFF ->
               Buffered(VecIndex([len |-> VramSize, bytes |-> p1.vram],
                                 mirror_vram_address(p1.mirroring, address)))
          [] address \in \h3000..\h3EFF ->
               [ppu |-> [p1 EXCEPT !.panic = "not implemented: address shouldn't be used"],
                ret |-> 0]
          [] address \in {\h3F10, \h3F14, \h3F18, \h3F1C} -> Palette((address - \h10) - \h3F00)
          [] address \in (\h3F00..\h3FFF) \ {\h3F10, \h3F14, \h3F18, \h3F1C} ->
               Palette(address - \h3F00)
          [] OTHER -> [ppu |-> [p1 EXCEPT !.panic = "unexpected access to mirrored space"],
                       ret |-> 0])

\* a faulty transfer that stores every byte at the same sprite-memory index
RECURSIVE PPU_write_oam_dma_KeepsAddress(_, _)
PPU_write_oam_dma_KeepsAddress(p, data) ==
    IF data = <<>> THEN p
    ELSE IF Len(data) = 1
    THEN [p EXCEPT !.oam_data = ArraySet(@, p.oam_address, Head(data))]
    ELSE Bind(PPU_write_oam_dma_KeepsAddress(p, SubSeq(data, 1, Len(data) \div 2)),
              LAMBDA q : IF q.panic # NoPanic THEN q
                         ELSE PPU_write_oam_dma_KeepsAddress(
                                  q, SubSeq(data, Len(data) \div 2 + 1, Len(data))))

\* PPU::write_oam_dma: data is the 256-byte buffer, as a sequence; the loop
\* over data runs as the loop over its first half followed by the loop over
\* its second half, which keeps the evaluation shallow
RECURSIVE PPU_write_oam_dma(_, _)
PPU_write_oam_dma(p, data) ==
    IF data = <<>> THEN p
    ELSE IF Len(data) = 1
    THEN PPU_write_to_oam_data(p, Head(data))
    ELSE Bind(PPU_write_oam_dma(p, SubSeq(data, 1, Len(data) \div 2)),
              LAMBDA q : IF q.panic # NoPanic THEN q
                         ELSE PPU_write_oam_dma(
                                  q, SubSeq(data, Len(data) \div 2 + 1, Len(data))))

(***************************************************************************)
(* Joypad (joypads.rs)                                                     *)
(***************************************************************************)
\* Joypad::new (without the host key map)
Joypad_new == [strobe_mode |-> FALSE, button_index |-> 0, button_status |-> 0]

\* Joypad::write
Joypad_write(j, value) ==
    LET j1 == [j EXCEPT !.strobe_mode = (BitAnd(value, 1) = 1)]
    IN  IF j1.strobe_mode THEN [j1 EXCEPT !.button_index = 0] ELSE j1

\* a faulty read that advances the index while the strobe is held
Joypad_read_AdvancesWhileHeld(j) ==
    IF j.button_index > 7 THEN [joypad |-> j, ret |-> 1]
    ELSE LET value == BitAnd(j.button_status, Pow2(j.button_index)) \div Pow2(j.button_index)
         IN  [joypad |-> [j EXCEPT !.button_index = @ + 1], ret |-> value]

\* Joypad::read
Joypad_read(j) ==
    IF j.button_index > 7 THEN [joypad |-> j, ret |-> 1]
    ELSE LET value == BitAnd(j.button_status, Pow2(j.button_index)) \div Pow2(j.button_index)
         IN  [joypad |-> IF ~j.strobe_mode /\ j.button_index <= 7
                         THEN [j EXCEPT !.button_index = @ + 1] ELSE j,
              ret |-> value]

(***************************************************************************)
(* BUS (bus.rs)                                                            *)
(***************************************************************************)
\* BUS::new
BUS_new(rom) ==
    [ cpu_vram |-> ZeroArray,
      prg_rom |-> rom.prg_rom,
      ppu |-> PPU_new(rom.chr_rom, rom.screen_mirroring),
      cycles |-> 0,
      joypad1 |-> Joypad_new,
      callbacks |-> 0,       \* history: invocations of gameloop_callback
      panic |-> NoPanic ]    \* the message of the panic that ended the session

\* the session has ended in a panic raised by the bus or by the PPU
BusDead(b) == b.panic # NoPanic \/ b.ppu.panic # NoPanic

\* a + n on u16: panics with overflow checks, wraps without
Add16(a, n) ==
    IF a + n > 65535
    THEN [ok |-> ~overflow_checks, val |-> (a + n) % 65536]
    ELSE [ok |-> TRUE, val |-> a + n]

\* a + n on u8: panics with overflow checks, wraps without
Add8(a, n) ==
    IF a + n > 255
    THEN [ok |-> ~overflow_checks, val |-> (a + n) % 256]
    ELSE [ok |-> TRUE, val |-> a + n]

\* a * n on u8: panics with overflow checks, wraps without
Mul8(a, n) ==
    IF a * n > 255
    THEN [ok |-> ~overflow_checks, val |-> (a * n) % 256]
    ELSE [ok |-> TRUE, val |-> a * n]

OverflowPanic == "attempt to add with overflow"

\* a faulty ROM read that does not fold a 16 KiB image's upper half down
BUS_read_prg_rom_NoMirror(b, address) ==
    LET a1 == address - \h8000
        cell == VecIndex(b.prg_rom, a1)
    IN  IF cell.ok THEN [bus |-> b, ret |-> cell.val]
        ELSE [bus |-> [b EXCEPT !.panic = "index out of bounds: prg_rom"], ret |-> 0]

\* BUS::read_prg_rom
BUS_read_prg_rom(b, address) ==
    LET a1 == address - \h8000
        a2 == IF b.prg_rom.len = \h4000 /\ a1 >= \h4000 THEN a1 % \h4000 ELSE a1
        cell == VecIndex(b.prg_rom, a2)
    IN  IF cell.ok THEN [bus |-> b, ret |-> cell.val]
        ELSE [bus |-> [b EXCEPT !.panic = "index out of bounds: prg_rom"], ret |-> 0]

\* a faulty read that returns 0xFF where no range is defined
RECURSIVE BUS_memory_read_OpenBus(_, _)
BUS_memory_read_OpenBus(b, address) ==
    IF BusDead(b) THEN [bus |-> b, ret |-> 0]
    ELSE CASE address <= \h1FFF ->
                [bus |-> b, ret |-> ArrayGet(b.cpu_vram, BitAnd(address, \h07FF))]
           [] address \in {\h2000, \h2001, \h2003, \h2005, \h2006, \h4014} ->
                [bus |-> b, ret |-> 0]
           [] address = \h2002 ->
                Bind(PPU_read_status(b.ppu),
                     LAMBDA r : [bus |-> [b EXCEPT !.ppu = r.ppu], ret |-> r.ret])
           [] address = \h2004 -> [bus |-> b, ret |-> PPU_read_oam_data(b.ppu)]
           [] address = \h2007 ->
                Bind(PPU_read_data(b.ppu),
                     LAMBDA r : [bus |-> [b EXCEPT !.ppu = r.ppu], ret |-> r.ret])
           [] address \in (\h4000..\h4015) \ {\h4014} -> [bus |-> b, ret |-> 0]
           [] address = \h4016 ->
                Bind(Joypad_read(b.joypad1),
                     LAMBDA r : [bus |-> [b EXCEPT !.joypad1 = r.joypad], ret |-> r.ret])
           [] address = \h4017 -> [bus |-> b, ret |-> 0]
           [] address \in \h2008..\h3FFF -> BUS_memory_read_OpenBus(b, BitAnd(address, \h2007))
           [] address \in \h8000..\hFFFF -> BUS_read_prg_rom(b, address)
           [] OTHER -> [bus |-> b, ret |-> \hFF]

\* BUS::memory_read: the new bus value and the byte read
RECURSIVE BUS_memory_read(_, _)
BUS_memory_read(b, address) ==
    IF BusDead(b) THEN [bus |-> b, ret |-> 0]
    ELSE CASE address <= \h1FFF ->
                [bus |-> b, ret |-> ArrayGet(b.cpu_vram, BitAnd(address, \h07FF))]
           [] address \in {\h2000, \h2001, \h2003, \h2005, \h2006, \h4014} ->
                [bus |-> b, ret |-> 0]
           [] address = \h2002 ->
                Bind(PPU_read_status(b.ppu),
                     LAMBDA r : [bus |-> [b EXCEPT !.ppu = r.ppu], ret |-> r.ret])
           [] address = \h2004 -> [bus |-> b, ret |-> PPU_read_oam_data(b.ppu)]
           [] address = \h2007 ->
                Bind(PPU_read_data(b.ppu),
                     LAMBDA r : [bus |-> [b EXCEPT !.ppu = r.ppu], ret |-> r.ret])
           [] address \in (\h4000..\h4015) \ {\h4014} -> [bus |-> b, ret |-> 0]
           [] address = \h4016 ->
                Bind(Joypad_read(b.joypad1),
                     LAMBDA r : [bus |-> [b EXCEPT !.joypad1 = r.joypad], ret |-> r.ret])
           [] address = \h4017 -> [bus |-> b, ret |-> 0]
           [] address \in \h2008..\h3FFF -> BUS_memory_read(b, BitAnd(address, \h2007))
           [] address \in \h8000..\hFFFF -> BUS_read_prg_rom(b, address)
           [] OTHER -> [bus |-> b, ret |-> 0]

\* the loop `for i in from..to { buffer[i] = self.memory_read(hi + i) }`, run
\* as the loop over the first half of the range followed by the loop over its
\* second half, which keeps the evaluation shallow
RECURSIVE DmaRange(_, _, _, _, _)
DmaRange(b, hi, from, to, buffer) ==
    IF from >= to \/ BusDead(b) THEN [bus |-> b, buffer |-> buffer]
    ELSE IF to - from = 1
    THEN Bind(BUS_memory_read(b, hi + from),
              LAMBDA r : [bus |-> r.bus, buffer |-> Append(buffer, r.ret)])
    ELSE Bind(DmaRange(b, hi, from, (from + to) \div 2, buffer),
              LAMBDA r : IF BusDead(r.bus) THEN r
                         ELSE DmaRange(r.bus, hi, (from + to) \div 2, to, r.buffer))

\* the loop `for i in 0..256u16 { buffer[i] = self.memory_read(hi + i) }` from index i on
DmaFill(b, hi, i, buffer) == DmaRange(b, hi, i, 256, buffer)

\* BUS::memory_write
RECURSIVE BUS_memory_write(_, _, _)
BUS_memory_write(b, address, data) ==
    IF BusDead(b) THEN b
    ELSE CASE address <= \h1FFF ->
                [b EXCEPT !.cpu_vram = ArraySet(@, BitAnd(address, \h07FF), data)]
           [] address = \h2000 -> [b EXCEPT !.ppu = PPU_write_to_control(@, data)]
           [] address = \h2001 -> [b EXCEPT !.ppu = PPU_write_to_mask(@, data)]
           [] address = \h2002 -> [b EXCEPT !.panic = "attempt to write to PPU status register"]
           [] address = \h2003 -> [b EXCEPT !.ppu = PPU_write_to_oam_address(@, data)]
           [] address = \h2004 -> [b EXCEPT !.ppu = PPU_write_to_oam_data(@, data)]
           [] address = \h2005 -> [b EXCEPT !.ppu = PPU_write_to_scroll(@, data)]
           [] address = \h2006 -> [b EXCEPT !.ppu = PPU_write_to_ppu_address(@, data)]
           [] address = \h2007 -> [b EXCEPT !.ppu = PPU_write_to_data(@, data)]
           [] address \in (\h4000..\h4013) \cup {\h4015} -> b
           [] address = \h4016 -> [b EXCEPT !.joypad1 = Joypad_write(@, data)]
           [] address = \h4017 -> b
           [] address = \h4014 ->
                Bind(DmaFill(b, data * 256, 0, <<>>),
                     LAMBDA r : IF BusDead(r.bus) THEN r.bus
                                ELSE [r.bus EXCEPT !.ppu = PPU_write_oam_dma(@, r.buffer)])
           [] address \in \h2008..\h3FFF -> BUS_memory_write(b, BitAnd(address, \h2007), data)
           [] address \in \h8000..\hFFFF ->
                [b EXCEPT !.panic = "Attempt to write to Cartridge ROM space"]
           [] OTHER -> b

\* BUS::memory_read_u16
BUS_memory_read_u16(b, address) ==
    LET next == Add16(address, 1) IN
    Bind(BUS_memory_read(b, address), LAMBDA lo :
        IF BusDead(lo.bus) THEN [bus |-> lo.bus, ret |-> 0]
        ELSE IF ~next.ok THEN [bus |-> [lo.bus EXCEPT !.panic = OverflowPanic], ret |-> 0]
        ELSE Bind(BUS_memory_read(lo.bus, next.val),
                  LAMBDA hi : [bus |-> hi.bus, ret |-> hi.ret * 256 + lo.ret]))

\* a faulty 16-bit write that stores only the low byte
BUS_memory_write_u16_LowOnly(b, pos, data) ==
    BUS_memory_write(b, pos, BitAnd(data, \hFF))

\* BUS::memory_write_u16
BUS_memory_write_u16(b, pos, data) ==
    LET high == data \div 256
        low == BitAnd(data, \hFF)
        next == Add16(pos, 1)
    IN  Bind(BUS_memory_write(b, pos, low), LAMBDA b1 :
            IF BusDead(b1) THEN b1
            ELSE IF ~next.ok THEN [b1 EXCEPT !.panic = OverflowPanic]
            ELSE BUS_memory_write(b1, next.val, high))

\* the gameloop_callback of a host that only takes the frame
gameloop_callback(b) == [b EXCEPT !.callbacks = @ + 1]

\* a faulty bus tick that advances the PPU two dots per cycle
BUS_tick_TwoDotsPerCycle(b, cycles) ==
    IF BusDead(b) THEN b
    ELSE LET b1 == [b EXCEPT !.cycles = @ + cycles]
             ppu_dots == Mul8(cycles, 2)
         IN  IF ~ppu_dots.ok THEN [b1 EXCEPT !.panic = "attempt to multiply with overflow"]
             ELSE Bind(PPU_tick(b1.ppu, ppu_dots.val), LAMBDA r :
                    LET b2 == [b1 EXCEPT !.ppu = r.ppu]
                        new_frame == r.ret
                    IN  IF new_frame THEN gameloop_callback(b2) ELSE b2)

\* BUS::tick
BUS_tick(b, cycles) ==
    IF BusDead(b) THEN b
    ELSE LET b1 == [b EXCEPT !.cycles = @ + cycles]
             ppu_dots == Mul8(cycles, 3)
         IN  IF ~ppu_dots.ok THEN [b1 EXCEPT !.panic = "attempt to multiply with overflow"]
             ELSE Bind(PPU_tick(b1.ppu, ppu_dots.val), LAMBDA r :
                    LET b2 == [b1 EXCEPT !.ppu = r.ppu]
                        new_frame == r.ret
                    IN  IF new_frame THEN gameloop_callback(b2) ELSE b2)

\* BUS::poll_nmi_status
BUS_poll_nmi_status(b) ==
    LET r == PPU_poll_nmi_interrupt(b.ppu) IN [bus |-> [b EXCEPT !.ppu = r.ppu], ret |-> r.ret]

(***************************************************************************)
(* CPU (cpu.rs)                                                            *)
(***************************************************************************)
\* CPU::new
CPU_new(bus) ==
    [ register_a |-> 0,
      register_x |-> 0,
      register_y |-> 0,
      register_sp |-> 253,
      register_pc |-> 0,
      register_p |-> 36,
      bus |-> bus,
      panic |-> NoPanic ]    \* the message of the panic that ended the session

\* CpuFlags bit numbers
CARRY == 0
ZERO == 1
INTERRUPT_DISABLE == 2
DECIMAL_MODE == 3
BREAK == 4
UNUSED == 5
OVERFLOW == 6
NEGATIVE == 7

\* const STACK, const STACK_RESET
STACK == 256
STACK_RESET == 253

\* `v as i8` of a u8, and `n as u8` of an i8
AsI8(v) == IF v >= 128 THEN v - 256 ELSE v
AsU8(n) == (n + 256) % 256

\* i8 wrapping_neg and wrapping_sub
WrapNegI8(n) == IF n = -128 THEN -128 ELSE -n
WrapSubI8(a, b) == ((a - b + 128 + 256) % 256) - 128

\* the session has ended in a panic
Dead(c) == c.panic # NoPanic \/ BusDead(c.bus)

\* t, unless the session has already ended in c
Live(c, t) == IF Dead(c) THEN c ELSE t

\* page_cross
page_cross(address1, address2) == BitAnd(address1, \hFF00) # BitAnd(address2, \hFF00)

\* CPU::memory_read
CPU_memory_read(c, address) ==
    IF Dead(c) THEN [cpu |-> c, ret |-> 0]
    ELSE Bind(BUS_memory_read(c.bus, address),
              LAMBDA r : [cpu |-> [c EXCEPT !.bus = r.bus], ret |-> r.ret])

\* CPU::memory_write
CPU_memory_write(c, address, value) ==
    Live(c, [c EXCEPT !.bus = BUS_memory_write(@, address, value)])

\* CPU::memory_read_u16
CPU_memory_read_u16(c, address) ==
    IF Dead(c) THEN [cpu |-> c, ret |-> 0]
    ELSE Bind(BUS_memory_read_u16(c.bus, address),
              LAMBDA r : [cpu |-> [c EXCEPT !.bus = r.bus], ret |-> r.ret])

\* CPU::memory_write_u16
CPU_memory_write_u16(c, address, value) ==
    Live(c, [c EXCEPT !.bus = BUS_memory_write_u16(@, address, value)])

\* CPU::update_zero_and_negative_flags
update_zero_and_negative_flags(c, result) ==
    [c EXCEPT !.register_p = SetBit(SetBit(@, ZERO, result = 0), NEGATIVE, result \div 128 = 1)]

\* CPU::update_negative_flags
update_negative_flags(c, result) ==
    [c EXCEPT !.register_p = SetBit(@, NEGATIVE, result \div 128 = 1)]

\* CpuFlags insert, remove and set on register_p
put_flag(c, flag, on) == [c EXCEPT !.register_p = SetBit(@, flag, on)]

\* the register-and-flags idiom `self.register_r = value;
\* self.update_zero_and_negative_flags(self.register_r);`
set_register(c, reg, value) ==
    update_zero_and_negative_flags([c EXCEPT ![reg] = value], value)

\* CPU::set_register_a
set_register_a(c, value) == set_register(c, "register_a", value)

\* a faulty addition whose overflow flag is the unsigned carry
add_to_register_a_UnsignedOverflow(c, value) ==
    LET sum == c.register_a + value + Bit(c.register_p, CARRY)
        carry == sum > 255
        c1 == put_flag(c, CARRY, carry)
        c2 == [c1 EXCEPT !.register_p = SetBit(@, OVERFLOW, carry)]
    IN  set_register_a(c2, sum % 256)

\* a faulty addition whose overflow flag is set when the operand's sign and
\* the accumulator's differ
add_to_register_a_SignsDiffer(c, value) ==
    LET sum == c.register_a + value + Bit(c.register_p, CARRY)
        carry == sum > 255
        c1 == put_flag(c, CARRY, carry)
        overflow == BitAnd(BitXor(value, c.register_a), 128) # 0
        c2 == [c1 EXCEPT !.register_p = SetBit(@, OVERFLOW, overflow)]
    IN  set_register_a(c2, sum % 256)

\* CPU::add_to_register_a
add_to_register_a(c, value) ==
    LET sum == c.register_a + value + Bit(c.register_p, CARRY)
        carry == sum > 255
        c1 == put_flag(c, CARRY, carry)
        result == sum % 256
        overflow == BitAnd(BitAnd(BitXor(value, result), BitXor(result, c.register_a)), 128) # 0
        c2 == [c1 EXCEPT !.register_p = SetBit(@, OVERFLOW, overflow)]
    IN  set_register_a(c2, result)

\* CPU::sub_from_register_a
sub_from_register_a(c, value) ==
    add_to_register_a(c, AsU8(WrapSubI8(WrapNegI8(AsI8(value)), 1)))

\* CPU::stack_pop
stack_pop(c) ==
    LET c1 == [c EXCEPT !.register_sp = WrapAdd8(@, 1)]
    IN  CPU_memory_read(c1, STACK + c1.register_sp)

\* CPU::stack_push
stack_push(c, value) ==
    LET c1 == CPU_memory_write(c, STACK + c.register_sp, value)
    IN  [c1 EXCEPT !.register_sp = WrapSub8(@, 1)]

\* a faulty 16-bit push that pushes the low byte first
stack_push_u16_LowFirst(c, value) ==
    LET high == value \div 256
        low == BitAnd(value, \hFF)
    IN  stack_push(stack_push(c, low), high)

\* CPU::stack_push_u16
stack_push_u16(c, value) ==
    LET high == value \div 256
        low == BitAnd(value, \hFF)
    IN  stack_push(stack_push(c, high), low)

\* CPU::stack_pop_u16
stack_pop_u16(c) ==
    Bind(stack_pop(c), LAMBDA low :
        Bind(stack_pop(low.cpu),
             LAMBDA high : [cpu |-> high.cpu, ret |-> high.ret * 256 + low.ret]))

\* CPU::get_absolute_address: the new CPU value, the address, and the page-cross flag
get_absolute_address(c, mode, address) ==
    CASE mode = "ZeroPage" ->
           Bind(CPU_memory_read(c, address),
                LAMBDA r : [cpu |-> r.cpu, ret |-> r.ret, cross |-> FALSE])
      [] mode = "Absolute" ->
           Bind(CPU_memory_read_u16(c, address),
                LAMBDA r : [cpu |-> r.cpu, ret |-> r.ret, cross |-> FALSE])
      [] mode = "ZeroPageX" ->
           Bind(CPU_memory_read(c, address),
                LAMBDA r : [cpu |-> r.cpu, ret |-> WrapAdd8(r.ret, c.register_x), cross |-> FALSE])
      [] mode = "ZeroPageY" ->
           Bind(CPU_memory_read(c, address),
                LAMBDA r : [cpu |-> r.cpu, ret |-> WrapAdd8(r.ret, c.register_y), cross |-> FALSE])
      [] mode = "AbsoluteX" ->
           Bind(CPU_memory_read_u16(c, address), LAMBDA r :
                LET a == WrapAdd16(r.ret, c.register_x)
                IN  [cpu |-> r.cpu, ret |-> a, cross |-> page_cross(r.ret, a)])
      [] mode = "AbsoluteY" ->
           Bind(CPU_memory_read_u16(c, address), LAMBDA r :
                LET a == WrapAdd16(r.ret, c.register_y)
                IN  [cpu |-> r.cpu, ret |-> a, cross |-> page_cross(r.ret, a)])
      [] mode = "IndirectX" ->
           Bind(CPU_memory_read(c, address), LAMBDA base :
                LET ptr == WrapAdd8(base.ret, c.register_x) IN
                Bind(CPU_memory_read(base.cpu, ptr), LAMBDA low :
                Bind(CPU_memory_read(low.cpu, WrapAdd8(ptr, 1)), LAMBDA high :
                     [cpu |-> high.cpu, ret |-> high.ret * 256 + low.ret, cross |-> FALSE])))
      [] mode = "IndirectY" ->
           Bind(CPU_memory_read(c, address), LAMBDA base :
                Bind(CPU_memory_read(base.cpu, base.ret), LAMBDA low :
                Bind(CPU_memory_read(low.cpu, WrapAdd8(base.ret, 1)), LAMBDA high :
                     LET deref_base == high.ret * 256 + low.ret
                         deref == WrapAdd16(deref_base, c.register_y)
                     IN  [cpu |-> high.cpu, ret |-> deref,
                          cross |-> page_cross(deref, deref_base)])))
      [] OTHER ->
           [cpu |-> [c EXCEPT !.panic = "mode is not supported"], ret |-> 0, cross |-> FALSE]

\* CPU::get_operand_address
get_operand_address(c, mode) ==
    IF mode = "Immediate" THEN [cpu |-> c, ret |-> c.register_pc, cross |-> FALSE]
    ELSE get_absolute_address(c, mode, c.register_pc)

\* the idiom `let address = self.get_operand_address(mode);
\*            let value = self.memory_read(address);` of the handlers
Operand(c, mode) ==
    Bind(get_operand_address(c, mode), LAMBDA a :
        Bind(CPU_memory_read(a.cpu, a.ret),
             LAMBDA v : [cpu |-> v.cpu, address |-> a.ret, ret |-> v.ret]))

\* a handler's result when it also returns a value
LiveR(c, r) == IF Dead(c) THEN [cpu |-> c, ret |-> 0] ELSE r

\* a faulty comparison whose carry is set only when the operand is smaller
compare_StrictCarry(c, mode, compare_with) ==
    Bind(Operand(c, mode), LAMBDA o :
        LET c1 == put_flag(o.cpu, CARRY, o.ret < compare_with)
        IN  Live(o.cpu, update_zero_and_negative_flags(c1, WrapSub8(compare_with, o.ret))))

\* CPU::compare
compare(c, mode, compare_with) ==
    Bind(Operand(c, mode), LAMBDA o :
        LET c1 == put_flag(o.cpu, CARRY, o.ret <= compare_with)
        IN  Live(o.cpu, update_zero_and_negative_flags(c1, WrapSub8(compare_with, o.ret))))

\* `jump as u16` of an i8: sign extension
I8AsU16(n) == (n + 65536) % 65536

\* CPU::branch
branch(c, condition) ==
    IF condition
    THEN Bind(CPU_memory_read(c, c.register_pc), LAMBDA r :
            LET jump == AsI8(r.ret)
                jump_addr == WrapAdd16(WrapAdd16(c.register_pc, 1), I8AsU16(jump))
            IN  Live(r.cpu, [r.cpu EXCEPT !.register_pc = jump_addr]))
    ELSE c

\* CPU::adc
adc(c, mode) ==
    Bind(Operand(c, mode), LAMBDA o :
        Live(o.cpu, add_to_register_a(o.cpu, o.ret)))

\* CPU::and
and(c, mode) ==
    Bind(Operand(c, mode), LAMBDA o :
        Live(o.cpu, set_register_a(o.cpu, BitAnd(o.ret, o.cpu.register_a))))

\* CPU::asl_accumulator
asl_accumulator(c) ==
    LET value == c.register_a
        c1 == put_flag(c, CARRY, value \div 128 = 1)
    IN  set_register_a(c1, (value * 2) % 256)

\* CPU::asl
asl(c, mode) ==
    Bind(Operand(c, mode), LAMBDA o :
        LET c1 == put_flag(o.cpu, CARRY, o.ret \div 128 = 1)
            value == (o.ret * 2) % 256
        IN  Bind(CPU_memory_write(c1, o.address, value), LAMBDA c2 :
                LiveR(o.cpu, LiveR(c2, [cpu |-> update_zero_and_negative_flags(c2, value),
                                        ret |-> value]))))

\* CPU::bit
bit(c, mode) ==
    Bind(Operand(c, mode), LAMBDA o :
        LET and_ == BitAnd(o.cpu.register_a, o.ret)
            p1 == SetBit(o.cpu.register_p, ZERO, and_ = 0)
            p2 == SetBit(p1, NEGATIVE, BitAnd(o.ret, 128) > 0)
            p3 == SetBit(p2, OVERFLOW, BitAnd(o.ret, 64) > 0)
        IN  Live(o.cpu, [o.cpu EXCEPT !.register_p = p3]))

\* CPU::dec
dec(c, mode) ==
    Bind(Operand(c, mode), LAMBDA o :
        LET value == WrapSub8(o.ret, 1)
        IN  Bind(CPU_memory_write(o.cpu, o.address, value), LAMBDA c1 :
                LiveR(o.cpu, LiveR(c1, [cpu |-> update_zero_and_negative_flags(c1, value),
                                        ret |-> value]))))

\* CPU::eor
eor(c, mode) ==
    Bind(Operand(c, mode), LAMBDA o :
        Live(o.cpu, set_register_a(o.cpu, BitXor(o.ret, o.cpu.register_a))))

\* CPU::inc
inc(c, mode) ==
    Bind(Operand(c, mode), LAMBDA o :
        LET value == WrapAdd8(o.ret, 1)
        IN  Bind(CPU_memory_write(o.cpu, o.address, value), LAMBDA c1 :
                LiveR(o.cpu, LiveR(c1, [cpu |-> update_zero_and_negative_flags(c1, value),
                                        ret |-> value]))))

\* CPU::jmp_absolute
jmp_absolute(c) ==
    Bind(CPU_memory_read_u16(c, c.register_pc), LAMBDA memory_address :
        Live(memory_address.cpu, [memory_address.cpu EXCEPT !.register_pc = memory_address.ret]))

\* CPU::jmp_indirect
jmp_indirect(c) ==
    Bind(CPU_memory_read_u16(c, c.register_pc), LAMBDA memory_address :
        Bind(IF BitAnd(memory_address.ret, \h00FF) = \h00FF
             THEN Bind(CPU_memory_read(memory_address.cpu, memory_address.ret), LAMBDA low :
                  Bind(CPU_memory_read(low.cpu, BitAnd(memory_address.ret, \hFF00)), LAMBDA high :
                       [cpu |-> high.cpu, ret |-> high.ret * 256 + low.ret]))
             ELSE CPU_memory_read_u16(memory_address.cpu, memory_address.ret),
             LAMBDA indirect_reference :
                Live(memory_address.cpu,
                     Live(indirect_reference.cpu,
                          [indirect_reference.cpu EXCEPT !.register_pc = indirect_reference.ret]))))

\* CPU::jsr
jsr(c) ==
    LET plus2 == Add16(c.register_pc, 2)
    IN  IF ~plus2.ok THEN [c EXCEPT !.panic = OverflowPanic]
        ELSE Bind(stack_push_u16(c, plus2.val - 1), LAMBDA c1 :
             Bind(CPU_memory_read_u16(c1, c1.register_pc), LAMBDA target_address :
                  Live(c1, Live(target_address.cpu,
                       [target_address.cpu EXCEPT !.register_pc = target_address.ret]))))

\* CPU::lda
lda(c, mode) ==
    Bind(Operand(c, mode), LAMBDA o :
        Live(o.cpu, set_register_a(o.cpu, o.ret)))

\* CPU::ldx
ldx(c, mode) ==
    Bind(Operand(c, mode), LAMBDA o :
        Live(o.cpu, update_zero_and_negative_flags([o.cpu EXCEPT !.register_x = o.ret], o.ret)))

\* CPU::ldy
ldy(c, mode) ==
    Bind(Operand(c, mode), LAMBDA o :
        Live(o.cpu, update_zero_and_negative_flags([o.cpu EXCEPT !.register_y = o.ret], o.ret)))

\* CPU::lsr_accumulator
lsr_accumulator(c) ==
    LET value == c.register_a
        c1 == put_flag(c, CARRY, value % 2 = 1)
    IN  set_register_a(c1, value \div 2)

\* CPU::lsr
lsr(c, mode) ==
    Bind(Operand(c, mode), LAMBDA o :
        LET c1 == put_flag(o.cpu, CARRY, o.ret % 2 = 1)
            value == o.ret \div 2
        IN  Bind(CPU_memory_write(c1, o.address, value), LAMBDA c2 :
                LiveR(o.cpu, LiveR(c2, [cpu |-> update_zero_and_negative_flags(c2, value),
                                        ret |-> value]))))

\* CPU::ora
ora(c, mode) ==
    Bind(Operand(c, mode), LAMBDA o :
        Live(o.cpu, set_register_a(o.cpu, BitOr(o.ret, o.cpu.register_a))))

\* a faulty push that stores the flags register as it is
php_AsIs(c) == stack_push(c, c.register_p)

\* CPU::php
php(c) ==
    LET flags == SetBit(SetBit(c.register_p, BREAK, TRUE), UNUSED, TRUE)
    IN  stack_push(c, flags)

\* CPU::pla
pla(c) ==
    Bind(stack_pop(c), LAMBDA value :
        Live(value.cpu, set_register_a(value.cpu, value.ret)))

\* a faulty pull that takes the break bit from the pulled byte
plp_KeepsBreak(c) ==
    Bind(stack_pop(c), LAMBDA bits :
        Live(bits.cpu, [bits.cpu EXCEPT !.register_p = SetBit(bits.ret, UNUSED, TRUE)]))

\* CPU::plp
plp(c) ==
    Bind(stack_pop(c), LAMBDA bits :
        Live(bits.cpu,
             [bits.cpu EXCEPT !.register_p = SetBit(SetBit(bits.ret, BREAK, FALSE), UNUSED, TRUE)]))

\* CPU::rol_accumulator
rol_accumulator(c) ==
    LET value == c.register_a
        old_carry == Bit(c.register_p, CARRY)
        c1 == put_flag(c, CARRY, value \div 128 = 1)
    IN  set_register_a(c1, BitOr((value * 2) % 256, old_carry))

\* CPU::rol
rol(c, mode) ==
    Bind(Operand(c, mode), LAMBDA o :
        LET old_carry == Bit(o.cpu.register_p, CARRY)
            c1 == put_flag(o.cpu, CARRY, o.ret \div 128 = 1)
            value == BitOr((o.ret * 2) % 256, old_carry)
        IN  Bind(CPU_memory_write(c1, o.address, value), LAMBDA c2 :
                LiveR(o.cpu, LiveR(c2, [cpu |-> update_negative_flags(c2, value), ret |-> value]))))

\* CPU::ror_accumulator
ror_accumulator(c) ==
    LET value == c.register_a
        old_carry == Bit(c.register_p, CARRY)
        c1 == put_flag(c, CARRY, value % 2 = 1)
    IN  set_register_a(c1, BitOr(value \div 2, old_carry * 128))

\* CPU::ror
ror(c, mode) ==
    Bind(Operand(c, mode), LAMBDA o :
        LET old_carry == Bit(o.cpu.register_p, CARRY)
            c1 == put_flag(o.cpu, CARRY, o.ret % 2 = 1)
            value == BitOr(o.ret \div 2, old_carry * 128)
        IN  Bind(CPU_memory_write(c1, o.address, value), LAMBDA c2 :
                LiveR(o.cpu, LiveR(c2, [cpu |-> update_negative_flags(c2, value), ret |-> value]))))

\* a faulty return from interrupt that takes the unused bit as it was stacked
rti_UnusedAsStacked(c) ==
    Bind(stack_pop(c), LAMBDA bits :
        LET c1 == [bits.cpu EXCEPT !.register_p = SetBit(bits.ret, BREAK, FALSE)]
        IN  Bind(stack_pop_u16(c1), LAMBDA pc :
                Live(bits.cpu, Live(pc.cpu, [pc.cpu EXCEPT !.register_pc = pc.ret]))))

\* CPU::rti
rti(c) ==
    Bind(stack_pop(c), LAMBDA bits :
        LET c1 == [bits.cpu EXCEPT !.register_p = SetBit(SetBit(bits.ret, BREAK, FALSE), UNUSED, TRUE)]
        IN  Bind(stack_pop_u16(c1), LAMBDA pc :
                Live(bits.cpu, Live(pc.cpu, [pc.cpu EXCEPT !.register_pc = pc.ret]))))

\* CPU::rts
rts(c) ==
    Bind(stack_pop_u16(c), LAMBDA popped :
        LET pc == Add16(popped.ret, 1)
        IN  Live(popped.cpu, IF pc.ok THEN [popped.cpu EXCEPT !.register_pc = pc.val]
                             ELSE [popped.cpu EXCEPT !.panic = OverflowPanic]))

\* a faulty subtraction that adds the operand's two's complement, one more
\* than the code's operand
sbc_TwosComplement(c, mode) ==
    Bind(Operand(c, mode), LAMBDA o :
        Live(o.cpu, add_to_register_a(o.cpu, AsU8(WrapNegI8(AsI8(o.ret))))))

\* CPU::sbc
sbc(c, mode) ==
    Bind(Operand(c, mode), LAMBDA o :
        Live(o.cpu, add_to_register_a(o.cpu, AsU8(WrapSubI8(WrapNegI8(AsI8(o.ret)), 1)))))

\* CPU::sta, CPU::stx, CPU::sty
sta(c, mode) ==
    Bind(get_operand_address(c, mode), LAMBDA a :
        Live(a.cpu, CPU_memory_write(a.cpu, a.ret, a.cpu.register_a)))
stx(c, mode) ==
    Bind(get_operand_address(c, mode), LAMBDA a :
        Live(a.cpu, CPU_memory_write(a.cpu, a.ret, a.cpu.register_x)))
sty(c, mode) ==
    Bind(get_operand_address(c, mode), LAMBDA a :
        Live(a.cpu, CPU_memory_write(a.cpu, a.ret, a.cpu.register_y)))

\* CPU::dcp
dcp(c, mode) ==
    Bind(Operand(c, mode), LAMBDA o :
        LET value == WrapSub8(o.ret, o.ret)
        IN  Bind(CPU_memory_write(o.cpu, o.address, value), LAMBDA c1 :
                LET c2 == IF value <= c1.register_a THEN put_flag(c1, CARRY, TRUE) ELSE c1
                IN  Live(o.cpu, Live(c1, update_zero_and_negative_flags(c2, WrapSub8(value, value))))))

\* CPU::rla, CPU::slo, CPU::sre
rla(c, mode) ==
    Bind(rol(c, mode), LAMBDA value :
        Live(value.cpu, set_register_a(value.cpu, BitAnd(value.ret, value.cpu.register_a))))
slo(c, mode) ==
    Bind(asl(c, mode), LAMBDA value :
        Live(value.cpu, set_register_a(value.cpu, BitOr(value.ret, value.cpu.register_a))))
sre(c, mode) ==
    Bind(lsr(c, mode), LAMBDA value :
        Live(value.cpu, set_register_a(value.cpu, BitXor(value.ret, value.cpu.register_a))))

\* CPU::axs
axs(c, mode) ==
    Bind(Operand(c, mode), LAMBDA o :
        LET x_and_a == BitAnd(o.cpu.register_x, o.cpu.register_a)
            result == WrapSub8(x_and_a, o.ret)
            c1 == IF o.ret <= x_and_a THEN put_flag(o.cpu, CARRY, TRUE) ELSE o.cpu
            c2 == update_zero_and_negative_flags(c1, result)
        IN  Live(o.cpu, [c2 EXCEPT !.register_x = result]))

\* CPU::arr
arr(c, mode) ==
    Bind(Operand(c, mode), LAMBDA o :
        LET c1 == ror_accumulator(set_register_a(o.cpu, BitAnd(o.ret, o.cpu.register_a)))
            result == c1.register_a
            bit_5 == Bit(result, 5)
            bit_6 == Bit(result, 6)
            c2 == put_flag(c1, CARRY, bit_6 = 1)
            c3 == [c2 EXCEPT !.register_p = SetBit(@, OVERFLOW, bit_5 # bit_6)]
        IN  Live(o.cpu, update_zero_and_negative_flags(c3, result)))

\* CPU::unofficial_sbc
unofficial_sbc(c, mode) ==
    Bind(Operand(c, mode), LAMBDA o :
        Live(o.cpu, sub_from_register_a(o.cpu, o.ret)))

\* CPU::anc
anc(c, mode) ==
    Bind(Operand(c, mode), LAMBDA o :
        LET c1 == set_register_a(o.cpu, BitAnd(o.ret, o.cpu.register_a))
        IN  Live(o.cpu, put_flag(c1, CARRY, Bit(c1.register_p, NEGATIVE) = 1)))

\* CPU::alr
alr(c, mode) ==
    Bind(Operand(c, mode), LAMBDA o :
        Live(o.cpu, lsr_accumulator(set_register_a(o.cpu, BitAnd(o.ret, o.cpu.register_a)))))

\* CPU::nop_read
nop_read(c, mode) == Operand(c, mode).cpu

\* CPU::rra, CPU::isb
rra(c, mode) ==
    Bind(ror(c, mode), LAMBDA value :
        Live(value.cpu, add_to_register_a(value.cpu, value.ret)))
isb(c, mode) ==
    Bind(inc(c, mode), LAMBDA value :
        Live(value.cpu, sub_from_register_a(value.cpu, value.ret)))

\* CPU::lax
lax(c, mode) ==
    Bind(Operand(c, mode), LAMBDA o :
        LET c1 == set_register_a(o.cpu, o.ret)
        IN  Live(o.cpu, [c1 EXCEPT !.register_x = c1.register_a]))

\* CPU::sax
sax(c, mode) ==
    LET value == BitAnd(c.register_a, c.register_x)
    IN  Bind(get_operand_address(c, mode), LAMBDA a :
            Live(a.cpu, CPU_memory_write(a.cpu, a.ret, value)))

\* CPU::lxa
lxa(c, mode) ==
    Bind(lda(c, mode), LAMBDA c1 :
        Live(c1, set_register(c1, "register_x", c1.register_a)))

\* CPU::xaa
xaa(c, mode) ==
    LET c1 == update_zero_and_negative_flags([c EXCEPT !.register_a = c.register_x], c.register_x)
    IN  Bind(Operand(c1, mode), LAMBDA o :
            Live(o.cpu, set_register_a(o.cpu, BitAnd(o.ret, o.cpu.register_a))))

\* CPU::las
las(c, mode) ==
    Bind(Operand(c, mode), LAMBDA o :
        LET value == BitAnd(o.ret, o.cpu.register_sp)
            c1 == [o.cpu EXCEPT !.register_a = value, !.register_x = value, !.register_sp = value]
        IN  Live(o.cpu, update_zero_and_negative_flags(c1, value)))

\* the tail shared by tas, sxa and sya: `(address >> 8) as u8 + 1`, the mask, the write
StoreHighPlus1(c, address, reg) ==
    LET high_plus_1 == Add8(address \div 256, 1)
    IN  IF ~high_plus_1.ok THEN [c EXCEPT !.panic = OverflowPanic]
        ELSE CPU_memory_write(c, address, BitAnd(reg, high_plus_1.val))

\* CPU::tas
tas(c) ==
    LET x_and_a == BitAnd(c.register_x, c.register_a)
        c1 == [c EXCEPT !.register_sp = x_and_a]
    IN  Bind(CPU_memory_read_u16(c1, c1.register_pc), LAMBDA base :
            LET address == Add16(base.ret, c1.register_y)
            IN  Live(base.cpu, IF ~address.ok THEN [base.cpu EXCEPT !.panic = OverflowPanic]
                               ELSE StoreHighPlus1(base.cpu, address.val, base.cpu.register_sp)))

\* CPU::axa_indirect
axa_indirect(c) ==
    Bind(CPU_memory_read(c, c.register_pc), LAMBDA position :
        Bind(CPU_memory_read_u16(position.cpu, position.ret), LAMBDA base :
            LET address == Add16(base.ret, c.register_y)
                x_and_a == BitAnd(c.register_x, c.register_a)
            IN  Live(position.cpu, Live(base.cpu,
                     IF ~address.ok THEN [base.cpu EXCEPT !.panic = OverflowPanic]
                     ELSE CPU_memory_write(base.cpu, address.val,
                                           BitAnd(x_and_a, address.val \div 256))))))

\* CPU::axa_absolute
axa_absolute(c) ==
    Bind(CPU_memory_read_u16(c, c.register_pc), LAMBDA base :
        LET address == Add16(base.ret, c.register_y)
            x_and_a == BitAnd(c.register_x, c.register_a)
        IN  Live(base.cpu,
                 IF ~address.ok THEN [base.cpu EXCEPT !.panic = OverflowPanic]
                 ELSE CPU_memory_write(base.cpu, address.val, BitAnd(x_and_a, address.val \div 256))))

\* CPU::sxa
sxa(c) ==
    Bind(CPU_memory_read_u16(c, c.register_pc), LAMBDA base :
        LET address == Add16(base.ret, c.register_y)
        IN  Live(base.cpu, IF ~address.ok THEN [base.cpu EXCEPT !.panic = OverflowPanic]
                           ELSE StoreHighPlus1(base.cpu, address.val, base.cpu.register_x)))

\* CPU::sya
sya(c) ==
    Bind(CPU_memory_read_u16(c, c.register_pc), LAMBDA base :
        LET address == Add16(base.ret, c.register_x)
        IN  Live(base.cpu, IF ~address.ok THEN [base.cpu EXCEPT !.panic = OverflowPanic]
                           ELSE StoreHighPlus1(base.cpu, address.val, base.cpu.register_x)))

\* lazy_static CPUOPSCODES: the descriptor table, in the order of the source
CPUOPSCODES ==
    <<
      [code |-> \h00, mnemonic |-> "BRK", len |-> 1, cycles |-> 7, mode |-> "NoneAddressing"],
      [code |-> \hEA, mnemonic |-> "NOP", len |-> 1, cycles |-> 2, mode |-> "NoneAddressing"],
      [code |-> \h69, mnemonic |-> "ADC", len |-> 2, cycles |-> 2, mode |-> "Immediate"],
      [code |-> \h65, mnemonic |-> "ADC", len |-> 2, cycles |-> 3, mode |-> "ZeroPage"],
      [code |-> \h75, mnemonic |-> "ADC", len |-> 2, cycles |-> 4, mode |-> "ZeroPageX"],
      [code |-> \h6D, mnemonic |-> "ADC", len |-> 3, cycles |-> 4, mode |-> "Absolute"],
      [code |-> \h7D, mnemonic |-> "ADC", len |-> 3, cycles |-> 4, mode |-> "AbsoluteX"],
      [code |-> \h79, mnemonic |-> "ADC", len |-> 3, cycles |-> 4, mode |-> "AbsoluteY"],
      [code |-> \h61, mnemonic |-> "ADC", len |-> 2, cycles |-> 6, mode |-> "IndirectX"],
      [code |-> \h71, mnemonic |-> "ADC", len |-> 2, cycles |-> 5, mode |-> "IndirectY"],
      [code |-> \hE9, mnemonic |-> "SBC", len |-> 2, cycles |-> 2, mode |-> "Immediate"],
      [code |-> \hE5, mnemonic |-> "SBC", len |-> 2, cycles |-> 3, mode |-> "ZeroPage"],
      [code |-> \hF5, mnemonic |-> "SBC", len |-> 2, cycles |-> 4, mode |-> "ZeroPageX"],
      [code |-> \hED, mnemonic |-> "SBC", len |-> 3, cycles |-> 4, mode |-> "Absolute"],
      [code |-> \hFD, mnemonic |-> "SBC", len |-> 3, cycles |-> 4, mode |-> "AbsoluteX"],
      [code |-> \hF9, mnemonic |-> "SBC", len |-> 3, cycles |-> 4, mode |-> "AbsoluteY"],
      [code |-> \hE1, mnemonic |-> "SBC", len |-> 2, cycles |-> 6, mode |-> "IndirectX"],
      [code |-> \hF1, mnemonic |-> "SBC", len |-> 2, cycles |-> 5, mode |-> "IndirectY"],
      [code |-> \h29, mnemonic |-> "AND", len |-> 2, cycles |-> 2, mode |-> "Immediate"],
      [code |-> \h25, mnemonic |-> "AND", len |-> 2, cycles |-> 3, mode |-> "ZeroPage"],
      [code |-> \h35, mnemonic |-> "AND", len |-> 2, cycles |-> 4, mode |-> "ZeroPageX"],
      [code |-> \h2D, mnemonic |-> "AND", len |-> 3, cycles |-> 4, mode |-> "Absolute"],
      [code |-> \h3D, mnemonic |-> "AND", len |-> 3, cycles |-> 4, mode |-> "AbsoluteX"],
      [code |-> \h39, mnemonic |-> "AND", len |-> 3, cycles |-> 4, mode |-> "AbsoluteY"],
      [code |-> \h21, mnemonic |-> "AND", len |-> 2, cycles |-> 6, mode |-> "IndirectX"],
      [code |-> \h31, mnemonic |-> "AND", len |-> 2, cycles |-> 5, mode |-> "IndirectY"],
      [code |-> \h49, mnemonic |-> "EOR", len |-> 2, cycles |-> 2, mode |-> "Immediate"],
      [code |-> \h45, mnemonic |-> "EOR", len |-> 2, cycles |-> 3, mode |-> "ZeroPage"],
      [code |-> \h55, mnemonic |-> "EOR", len |-> 2, cycles |-> 4, mode |-> "ZeroPageX"],
      [code |-> \h4D, mnemonic |-> "EOR", len |-> 3, cycles |-> 4, mode |-> "Absolute"],
      [code |-> \h5D, mnemonic |-> "EOR", len |-> 3, cycles |-> 4, mode |-> "AbsoluteX"],
      [code |-> \h59, mnemonic |-> "EOR", len |-> 3, cycles |-> 4, mode |-> "AbsoluteY"],
      [code |-> \h41, mnemonic |-> "EOR", len |-> 2, cycles |-> 6, mode |-> "IndirectX"],
      [code |-> \h51, mnemonic |-> "EOR", len |-> 2, cycles |-> 5, mode |-> "IndirectY"],
      [code |-> \h09, mnemonic |-> "ORA", len |-> 2, cycles |-> 2, mode |-> "Immediate"],
      [code |-> \h05, mnemonic |-> "ORA", len |-> 2, cycles |-> 3, mode |-> "ZeroPage"],
      [code |-> \h15, mnemonic |-> "ORA", len |-> 2, cycles |-> 4, mode |-> "ZeroPageX"],
      [code |-> \h0D, mnemonic |-> "ORA", len |-> 3, cycles |-> 4, mode |-> "Absolute"],
      [code |-> \h1D, mnemonic |-> "ORA", len |-> 3, cycles |-> 4, mode |-> "AbsoluteX"],
      [code |-> \h19, mnemonic |-> "ORA", len |-> 3, cycles |-> 4, mode |-> "AbsoluteY"],
      [code |-> \h01, mnemonic |-> "ORA", len |-> 2, cycles |-> 6, mode |-> "IndirectX"],
      [code |-> \h11, mnemonic |-> "ORA", len |-> 2, cycles |-> 5, mode |-> "IndirectY"],
      [code |-> \h0A, mnemonic |-> "ASL", len |-> 1, cycles |-> 2, mode |-> "NoneAddressing"],
      [code |-> \h06, mnemonic |-> "ASL", len |-> 2, cycles |-> 5, mode |-> "ZeroPage"],
      [code |-> \h16, mnemonic |-> "ASL", len |-> 2, cycles |-> 6, mode |-> "ZeroPageX"],
      [code |-> \h0E, mnemonic |-> "ASL", len |-> 3, cycles |-> 6, mode |-> "Absolute"],
      [code |-> \h1E, mnemonic |-> "ASL", len |-> 3, cycles |-> 7, mode |-> "AbsoluteX"],
      [code |-> \h4A, mnemonic |-> "LSR", len |-> 1, cycles |-> 2, mode |-> "NoneAddressing"],
      [code |-> \h46, mnemonic |-> "LSR", len |-> 2, cycles |-> 5, mode |-> "ZeroPage"],
      [code |-> \h56, mnemonic |-> "LSR", len |-> 2, cycles |-> 6, mode |-> "ZeroPageX"],
      [code |-> \h4E, mnemonic |-> "LSR", len |-> 3, cycles |-> 6, mode |-> "Absolute"],
      [code |-> \h5E, mnemonic |-> "LSR", len |-> 3, cycles |-> 7, mode |-> "AbsoluteX"],
      [code |-> \h2A, mnemonic |-> "ROL", len |-> 1, cycles |-> 2, mode |-> "NoneAddressing"],
      [code |-> \h26, mnemonic |-> "ROL", len |-> 2, cycles |-> 5, mode |-> "ZeroPage"],
      [code |-> \h36, mnemonic |-> "ROL", len |-> 2, cycles |-> 6, mode |-> "ZeroPageX"],
      [code |-> \h2E, mnemonic |-> "ROL", len |-> 3, cycles |-> 6, mode |-> "Absolute"],
      [code |-> \h3E, mnemonic |-> "ROL", len |-> 3, cycles |-> 7, mode |-> "AbsoluteX"],
      [code |-> \h6A, mnemonic |-> "ROR", len |-> 1, cycles |-> 2, mode |-> "NoneAddressing"],
      [code |-> \h66, mnemonic |-> "ROR", len |-> 2, cycles |-> 5, mode |-> "ZeroPage"],
      [code |-> \h76, mnemonic |-> "ROR", len |-> 2, cycles |-> 6, mode |-> "ZeroPageX"],
      [code |-> \h6E, mnemonic |-> "ROR", len |-> 3, cycles |-> 6, mode |-> "Absolute"],
      [code |-> \h7E, mnemonic |-> "ROR", len |-> 3, cycles |-> 7, mode |-> "AbsoluteX"],
      [code |-> \hE6, mnemonic |-> "INC", len |-> 2, cycles |-> 5, mode |-> "ZeroPage"],
      [code |-> \hF6, mnemonic |-> "INC", len |-> 2, cycles |-> 6, mode |-> "ZeroPageX"],
      [code |-> \hEE, mnemonic |-> "INC", len |-> 3, cycles |-> 6, mode |-> "Absolute"],
      [code |-> \hFE, mnemonic |-> "INC", len |-> 3, cycles |-> 7, mode |-> "AbsoluteX"],
      [code |-> \hE8, mnemonic |-> "INX", len |-> 1, cycles |-> 2, mode |-> "NoneAddressing"],
      [code |-> \hC8, mnemonic |-> "INY", len |-> 1, cycles |-> 2, mode |-> "NoneAddressing"],
      [code |-> \hC6, mnemonic |-> "DEC", len |-> 2, cycles |-> 5, mode |-> "ZeroPage"],
      [code |-> \hD6, mnemonic |-> "DEC", len |-> 2, cycles |-> 6, mode |-> "ZeroPageX"],
      [code |-> \hCE, mnemonic |-> "DEC", len |-> 3, cycles |-> 6, mode |-> "Absolute"],
      [code |-> \hDE, mnemonic |-> "DEC", len |-> 3, cycles |-> 7, mode |-> "AbsoluteX"],
      [code |-> \hCA, mnemonic |-> "DEX", len |-> 1, cycles |-> 2, mode |-> "NoneAddressing"],
      [code |-> \h88, mnemonic |-> "DEY", len |-> 1, cycles |-> 2, mode |-> "NoneAddressing"],
      [code |-> \hC9, mnemonic |-> "CMP", len |-> 2, cycles |-> 2, mode |-> "Immediate"],
      [code |-> \hC5, mnemonic |-> "CMP", len |-> 2, cycles |-> 3, mode |-> "ZeroPage"],
      [code |-> \hD5, mnemonic |-> "CMP", len |-> 2, cycles |-> 4, mode |-> "ZeroPageX"],
      [code |-> \hCD, mnemonic |-> "CMP", len |-> 3, cycles |-> 4, mode |-> "Absolute"],
      [code |-> \hDD, mnemonic |-> "CMP", len |-> 3, cycles |-> 4, mode |-> "AbsoluteX"],
      [code |-> \hD9, mnemonic |-> "CMP", len |-> 3, cycles |-> 4, mode |-> "AbsoluteY"],
      [code |-> \hC1, mnemonic |-> "CMP", len |-> 2, cycles |-> 6, mode |-> "IndirectX"],
      [code |-> \hD1, mnemonic |-> "CMP", len |-> 2, cycles |-> 5, mode |-> "IndirectY"],
      [code |-> \hC0, mnemonic |-> "CPY", len |-> 2, cycles |-> 2, mode |-> "Immediate"],
      [code |-> \hC4, mnemonic |-> "CPY", len |-> 2, cycles |-> 3, mode |-> "ZeroPage"],
      [code |-> \hCC, mnemonic |-> "CPY", len |-> 3, cycles |-> 4, mode |-> "Absolute"],
      [code |-> \hE0, mnemonic |-> "CPX", len |-> 2, cycles |-> 2, mode |-> "Immediate"],
      [code |-> \hE4, mnemonic |-> "CPX", len |-> 2, cycles |-> 3, mode |-> "ZeroPage"],
      [code |-> \hEC, mnemonic |-> "CPX", len |-> 3, cycles |-> 4, mode |-> "Absolute"],
      [code |-> \h4C, mnemonic |-> "JMP", len |-> 3, cycles |-> 3, mode |-> "NoneAddressing"],
      [code |-> \h6C, mnemonic |-> "JMP", len |-> 3, cycles |-> 5, mode |-> "NoneAddressing"],
      [code |-> \h20, mnemonic |-> "JSR", len |-> 3, cycles |-> 6, mode |-> "NoneAddressing"],
      [code |-> \h60, mnemonic |-> "RTS", len |-> 1, cycles |-> 6, mode |-> "NoneAddressing"],
      [code |-> \h40, mnemonic |-> "RTI", len |-> 1, cycles |-> 6, mode |-> "NoneAddressing"],
      [code |-> \hD0, mnemonic |-> "BNE", len |-> 2, cycles |-> 2, mode |-> "NoneAddressing"],
      [code |-> \h70, mnemonic |-> "BVS", len |-> 2, cycles |-> 2, mode |-> "NoneAddressing"],
      [code |-> \h50, mnemonic |-> "BVC", len |-> 2, cycles |-> 2, mode |-> "NoneAddressing"],
      [code |-> \h30, mnemonic |-> "BMI", len |-> 2, cycles |-> 2, mode |-> "NoneAddressing"],
      [code |-> \hF0, mnemonic |-> "BEQ", len |-> 2, cycles |-> 2, mode |-> "NoneAddressing"],
      [code |-> \hB0, mnemonic |-> "BCS", len |-> 2, cycles |-> 2, mode |-> "NoneAddressing"],
      [code |-> \h90, mnemonic |-> "BCC", len |-> 2, cycles |-> 2, mode |-> "NoneAddressing"],
      [code |-> \h10, mnemonic |-> "BPL", len |-> 2, cycles |-> 2, mode |-> "NoneAddressing"],
      [code |-> \h24, mnemonic |-> "BIT", len |-> 2, cycles |-> 3, mode |-> "ZeroPage"],
      [code |-> \h2C, mnemonic |-> "BIT", len |-> 3, cycles |-> 4, mode |-> "Absolute"],
      [code |-> \hA9, mnemonic |-> "LDA", len |-> 2, cycles |-> 2, mode |-> "Immediate"],
      [code |-> \hA5, mnemonic |-> "LDA", len |-> 2, cycles |-> 3, mode |-> "ZeroPage"],
      [code |-> \hB5, mnemonic |-> "LDA", len |-> 2, cycles |-> 4, mode |-> "ZeroPageX"],
      [code |-> \hAD, mnemonic |-> "LDA", len |-> 3, cycles |-> 4, mode |-> "Absolute"],
      [code |-> \hBD, mnemonic |-> "LDA", len |-> 3, cycles |-> 4, mode |-> "AbsoluteX"],
      [code |-> \hB9, mnemonic |-> "LDA", len |-> 3, cycles |-> 4, mode |-> "AbsoluteY"],
      [code |-> \hA1, mnemonic |-> "LDA", len |-> 2, cycles |-> 6, mode |-> "IndirectX"],
      [code |-> \hB1, mnemonic |-> "LDA", len |-> 2, cycles |-> 5, mode |-> "IndirectY"],
      [code |-> \hA2, mnemonic |-> "LDX", len |-> 2, cycles |-> 2, mode |-> "Immediate"],
      [code |-> \hA6, mnemonic |-> "LDX", len |-> 2, cycles |-> 3, mode |-> "ZeroPage"],
      [code |-> \hB6, mnemonic |-> "LDX", len |-> 2, cycles |-> 4, mode |-> "ZeroPageY"],
      [code |-> \hAE, mnemonic |-> "LDX", len |-> 3, cycles |-> 4, mode |-> "Absolute"],
      [code |-> \hBE, mnemonic |-> "LDX", len |-> 3, cycles |-> 4, mode |-> "AbsoluteY"],
      [code |-> \hA0, mnemonic |-> "LDY", len |-> 2, cycles |-> 2, mode |-> "Immediate"],
      [code |-> \hA4, mnemonic |-> "LDY", len |-> 2, cycles |-> 3, mode |-> "ZeroPage"],
      [code |-> \hB4, mnemonic |-> "LDY", len |-> 2, cycles |-> 4, mode |-> "ZeroPageX"],
      [code |-> \hAC, mnemonic |-> "LDY", len |-> 3, cycles |-> 4, mode |-> "Absolute"],
      [code |-> \hBC, mnemonic |-> "LDY", len |-> 3, cycles |-> 4, mode |-> "AbsoluteX"],
      [code |-> \h85, mnemonic |-> "STA", len |-> 2, cycles |-> 3, mode |-> "ZeroPage"],
      [code |-> \h95, mnemonic |-> "STA", len |-> 2, cycles |-> 4, mode |-> "ZeroPageX"],
      [code |-> \h8D, mnemonic |-> "STA", len |-> 3, cycles |-> 4, mode |-> "Absolute"],
      [code |-> \h9D, mnemonic |-> "STA", len |-> 3, cycles |-> 5, mode |-> "AbsoluteX"],
      [code |-> \h99, mnemonic |-> "STA", len |-> 3, cycles |-> 5, mode |-> "AbsoluteY"],
      [code |-> \h81, mnemonic |-> "STA", len |-> 2, cycles |-> 6, mode |-> "IndirectX"],
      [code |-> \h91, mnemonic |-> "STA", len |-> 2, cycles |-> 6, mode |-> "IndirectY"],
      [code |-> \h86, mnemonic |-> "STX", len |-> 2, cycles |-> 3, mode |-> "ZeroPage"],
      [code |-> \h96, mnemonic |-> "STX", len |-> 2, cycles |-> 4, mode |-> "ZeroPageY"],
      [code |-> \h8E, mnemonic |-> "STX", len |-> 3, cycles |-> 4, mode |-> "Absolute"],
      [code |-> \h84, mnemonic |-> "STY", len |-> 2, cycles |-> 3, mode |-> "ZeroPage"],
      [code |-> \h94, mnemonic |-> "STY", len |-> 2, cycles |-> 4, mode |-> "ZeroPageX"],
      [code |-> \h8C, mnemonic |-> "STY", len |-> 3, cycles |-> 4, mode |-> "Absolute"],
      [code |-> \hD8, mnemonic |-> "CLD", len |-> 1, cycles |-> 2, mode |-> "NoneAddressing"],
      [code |-> \h58, mnemonic |-> "CLI", len |-> 1, cycles |-> 2, mode |-> "NoneAddressing"],
      [code |-> \hB8, mnemonic |-> "CLV", len |-> 1, cycles |-> 2, mode |-> "NoneAddressing"],
      [code |-> \h18, mnemonic |-> "CLC", len |-> 1, cycles |-> 2, mode |-> "NoneAddressing"],
      [code |-> \h38, mnemonic |-> "SEC", len |-> 1, cycles |-> 2, mode |-> "NoneAddressing"],
      [code |-> \h78, mnemonic |-> "SEI", len |-> 1, cycles |-> 2, mode |-> "NoneAddressing"],
      [code |-> \hF8, mnemonic |-> "SED", len |-> 1, cycles |-> 2, mode |-> "NoneAddressing"],
      [code |-> \hAA, mnemonic |-> "TAX", len |-> 1, cycles |-> 2, mode |-> "NoneAddressing"],
      [code |-> \hA8, mnemonic |-> "TAY", len |-> 1, cycles |-> 2, mode |-> "NoneAddressing"],
      [code |-> \hBA, mnemonic |-> "TSX", len |-> 1, cycles |-> 2, mode |-> "NoneAddressing"],
      [code |-> \h8A, mnemonic |-> "TXA", len |-> 1, cycles |-> 2, mode |-> "NoneAddressing"],
      [code |-> \h9A, mnemonic |-> "TXS", len |-> 1, cycles |-> 2, mode |-> "NoneAddressing"],
      [code |-> \h98, mnemonic |-> "TYA", len |-> 1, cycles |-> 2, mode |-> "NoneAddressing"],
      [code |-> \h48, mnemonic |-> "PHA", len |-> 1, cycles |-> 3, mode |-> "NoneAddressing"],
      [code |-> \h68, mnemonic |-> "PLA", len |-> 1, cycles |-> 4, mode |-> "NoneAddressing"],
      [code |-> \h08, mnemonic |-> "PHP", len |-> 1, cycles |-> 3, mode |-> "NoneAddressing"],
      [code |-> \h28, mnemonic |-> "PLP", len |-> 1, cycles |-> 4, mode |-> "NoneAddressing"],
      [code |-> \hC7, mnemonic |-> "*DCP", len |-> 2, cycles |-> 5, mode |-> "ZeroPage"],
      [code |-> \hD7, mnemonic |-> "*DCP", len |-> 2, cycles |-> 6, mode |-> "ZeroPageX"],
      [code |-> \hCF, mnemonic |-> "*DCP", len |-> 3, cycles |-> 6, mode |-> "Absolute"],
      [code |-> \hDF, mnemonic |-> "*DCP", len |-> 3, cycles |-> 7, mode |-> "AbsoluteX"],
      [code |-> \hDB, mnemonic |-> "*DCP", len |-> 3, cycles |-> 7, mode |-> "AbsoluteY"],
      [code |-> \hD3, mnemonic |-> "*DCP", len |-> 2, cycles |-> 8, mode |-> "IndirectY"],
      [code |-> \hC3, mnemonic |-> "*DCP", len |-> 2, cycles |-> 8, mode |-> "IndirectX"],
      [code |-> \h27, mnemonic |-> "*RLA", len |-> 2, cycles |-> 5, mode |-> "ZeroPage"],
      [code |-> \h37, mnemonic |-> "*RLA", len |-> 2, cycles |-> 6, mode |-> "ZeroPageX"],
      [code |-> \h2F, mnemonic |-> "*RLA", len |-> 3, cycles |-> 6, mode |-> "Absolute"],
      [code |-> \h3F, mnemonic |-> "*RLA", len |-> 3, cycles |-> 7, mode |-> "AbsoluteX"],
      [code |-> \h3B, mnemonic |-> "*RLA", len |-> 3, cycles |-> 7, mode |-> "AbsoluteY"],
      [code |-> \h33, mnemonic |-> "*RLA", len |-> 2, cycles |-> 8, mode |-> "IndirectY"],
      [code |-> \h23, mnemonic |-> "*RLA", len |-> 2, cycles |-> 8, mode |-> "IndirectX"],
      [code |-> \h07, mnemonic |-> "*SLO", len |-> 2, cycles |-> 5, mode |-> "ZeroPage"],
      [code |-> \h17, mnemonic |-> "*SLO", len |-> 2, cycles |-> 6, mode |-> "ZeroPageX"],
      [code |-> \h0F, mnemonic |-> "*SLO", len |-> 3, cycles |-> 6, mode |-> "Absolute"],
      [code |-> \h1F, mnemonic |-> "*SLO", len |-> 3, cycles |-> 7, mode |-> "AbsoluteX"],
      [code |-> \h1B, mnemonic |-> "*SLO", len |-> 3, cycles |-> 7, mode |-> "AbsoluteY"],
      [code |-> \h03, mnemonic |-> "*SLO", len |-> 2, cycles |-> 8, mode |-> "IndirectX"],
      [code |-> \h13, mnemonic |-> "*SLO", len |-> 2, cycles |-> 8, mode |-> "IndirectY"],
      [code |-> \h47, mnemonic |-> "*SRE", len |-> 2, cycles |-> 5, mode |-> "ZeroPage"],
      [code |-> \h57, mnemonic |-> "*SRE", len |-> 2, cycles |-> 6, mode |-> "ZeroPageX"],
      [code |-> \h4F, mnemonic |-> "*SRE", len |-> 3, cycles |-> 6, mode |-> "Absolute"],
      [code |-> \h5F, mnemonic |-> "*SRE", len |-> 3, cycles |-> 7, mode |-> "AbsoluteX"],
      [code |-> \h5B, mnemonic |-> "*SRE", len |-> 3, cycles |-> 7, mode |-> "AbsoluteY"],
      [code |-> \h43, mnemonic |-> "*SRE", len |-> 2, cycles |-> 8, mode |-> "IndirectX"],
      [code |-> \h53, mnemonic |-> "*SRE", len |-> 2, cycles |-> 8, mode |-> "IndirectY"],
      [code |-> \h80, mnemonic |-> "*NOP", len |-> 2, cycles |-> 2, mode |-> "Immediate"],
      [code |-> \h82, mnemonic |-> "*NOP", len |-> 2, cycles |-> 2, mode |-> "Immediate"],
      [code |-> \h89, mnemonic |-> "*NOP", len |-> 2, cycles |-> 2, mode |-> "Immediate"],
      [code |-> \hC2, mnemonic |-> "*NOP", len |-> 2, cycles |-> 2, mode |-> "Immediate"],
      [code |-> \hE2, mnemonic |-> "*NOP", len |-> 2, cycles |-> 2, mode |-> "Immediate"],
      [code |-> \hCB, mnemonic |-> "*AXS", len |-> 2, cycles |-> 2, mode |-> "Immediate"],
      [code |-> \h6B, mnemonic |-> "*ARR", len |-> 2, cycles |-> 2, mode |-> "Immediate"],
      [code |-> \hEB, mnemonic |-> "*SBC", len |-> 2, cycles |-> 2, mode |-> "Immediate"],
      [code |-> \h0B, mnemonic |-> "*ANC", len |-> 2, cycles |-> 2, mode |-> "Immediate"],
      [code |-> \h2B, mnemonic |-> "*ANC", len |-> 2, cycles |-> 2, mode |-> "Immediate"],
      [code |-> \h4B, mnemonic |-> "*ALR", len |-> 2, cycles |-> 2, mode |-> "Immediate"],
      [code |-> \h04, mnemonic |-> "*NOP", len |-> 2, cycles |-> 3, mode |-> "ZeroPage"],
      [code |-> \h44, mnemonic |-> "*NOP", len |-> 2, cycles |-> 3, mode |-> "ZeroPage"],
      [code |-> \h64, mnemonic |-> "*NOP", len |-> 2, cycles |-> 3, mode |-> "ZeroPage"],
      [code |-> \h14, mnemonic |-> "*NOP", len |-> 2, cycles |-> 4, mode |-> "ZeroPageX"],
      [code |-> \h34, mnemonic |-> "*NOP", len |-> 2, cycles |-> 4, mode |-> "ZeroPageX"],
      [code |-> \h54, mnemonic |-> "*NOP", len |-> 2, cycles |-> 4, mode |-> "ZeroPageX"],
      [code |-> \h74, mnemonic |-> "*NOP", len |-> 2, cycles |-> 4, mode |-> "ZeroPageX"],
      [code |-> \hD4, mnemonic |-> "*NOP", len |-> 2, cycles |-> 4, mode |-> "ZeroPageX"],
      [code |-> \hF4, mnemonic |-> "*NOP", len |-> 2, cycles |-> 4, mode |-> "ZeroPageX"],
      [code |-> \h0C, mnemonic |-> "*NOP", len |-> 3, cycles |-> 4, mode |-> "Absolute"],
      [code |-> \h1C, mnemonic |-> "*NOP", len |-> 3, cycles |-> 4, mode |-> "AbsoluteX"],
      [code |-> \h3C, mnemonic |-> "*NOP", len |-> 3, cycles |-> 4, mode |-> "AbsoluteX"],
      [code |-> \h5C, mnemonic |-> "*NOP", len |-> 3, cycles |-> 4, mode |-> "AbsoluteX"],
      [code |-> \h7C, mnemonic |-> "*NOP", len |-> 3, cycles |-> 4, mode |-> "AbsoluteX"],
      [code |-> \hDC, mnemonic |-> "*NOP", len |-> 3, cycles |-> 4, mode |-> "AbsoluteX"],
      [code |-> \hFC, mnemonic |-> "*NOP", len |-> 3, cycles |-> 4, mode |-> "AbsoluteX"],
      [code |-> \h67, mnemonic |-> "*RRA", len |-> 2, cycles |-> 5, mode |-> "ZeroPage"],
      [code |-> \h77, mnemonic |-> "*RRA", len |-> 2, cycles |-> 6, mode |-> "ZeroPageX"],
      [code |-> \h6F, mnemonic |-> "*RRA", len |-> 3, cycles |-> 6, mode |-> "Absolute"],
      [code |-> \h7F, mnemonic |-> "*RRA", len |-> 3, cycles |-> 7, mode |-> "AbsoluteX"],
      [code |-> \h7B, mnemonic |-> "*RRA", len |-> 3, cycles |-> 7, mode |-> "AbsoluteY"],
      [code |-> \h63, mnemonic |-> "*RRA", len |-> 2, cycles |-> 8, mode |-> "IndirectX"],
      [code |-> \h73, mnemonic |-> "*RRA", len |-> 2, cycles |-> 8, mode |-> "IndirectY"],
      [code |-> \hE7, mnemonic |-> "*ISB", len |-> 2, cycles |-> 5, mode |-> "ZeroPage"],
      [code |-> \hF7, mnemonic |-> "*ISB", len |-> 2, cycles |-> 6, mode |-> "ZeroPageX"],
      [code |-> \hEF, mnemonic |-> "*ISB", len |-> 3, cycles |-> 6, mode |-> "Absolute"],
      [code |-> \hFF, mnemonic |-> "*ISB", len |-> 3, cycles |-> 7, mode |-> "AbsoluteX"],
      [code |-> \hFB, mnemonic |-> "*ISB", len |-> 3, cycles |-> 7, mode |-> "AbsoluteY"],
      [code |-> \hE3, mnemonic |-> "*ISB", len |-> 2, cycles |-> 8, mode |-> "IndirectX"],
      [code |-> \hF3, mnemonic |-> "*ISB", len |-> 2, cycles |-> 8, mode |-> "IndirectY"],
      [code |-> \h02, mnemonic |-> "*NOP", len |-> 1, cycles |-> 2, mode |-> "NoneAddressing"],
      [code |-> \h12, mnemonic |-> "*NOP", len |-> 1, cycles |-> 2, mode |-> "NoneAddressing"],
      [code |-> \h22, mnemonic |-> "*NOP", len |-> 1, cycles |-> 2, mode |-> "NoneAddressing"],
      [code |-> \h32, mnemonic |-> "*NOP", len |-> 1, cycles |-> 2, mode |-> "NoneAddressing"],
      [code |-> \h42, mnemonic |-> "*NOP", len |-> 1, cycles |-> 2, mode |-> "NoneAddressing"],
      [code |-> \h52, mnemonic |-> "*NOP", len |-> 1, cycles |-> 2, mode |-> "NoneAddressing"],
      [code |-> \h62, mnemonic |-> "*NOP", len |-> 1, cycles |-> 2, mode |-> "NoneAddressing"],
      [code |-> \h72, mnemonic |-> "*NOP", len |-> 1, cycles |-> 2, mode |-> "NoneAddressing"],
      [code |-> \h92, mnemonic |-> "*NOP", len |-> 1, cycles |-> 2, mode |-> "NoneAddressing"],
      [code |-> \hB2, mnemonic |-> "*NOP", len |-> 1, cycles |-> 2, mode |-> "NoneAddressing"],
      [code |-> \hD2, mnemonic |-> "*NOP", len |-> 1, cycles |-> 2, mode |-> "NoneAddressing"],
      [code |-> \hF2, mnemonic |-> "*NOP", len |-> 1, cycles |-> 2, mode |-> "NoneAddressing"],
      [code |-> \h1A, mnemonic |-> "*NOP", len |-> 1, cycles |-> 2, mode |-> "NoneAddressing"],
      [code |-> \h3A, mnemonic |-> "*NOP", len |-> 1, cycles |-> 2, mode |-> "NoneAddressing"],
      [code |-> \h5A, mnemonic |-> "*NOP", len |-> 1, cycles |-> 2, mode |-> "NoneAddressing"],
      [code |-> \h7A, mnemonic |-> "*NOP", len |-> 1, cycles |-> 2, mode |-> "NoneAddressing"],
      [code |-> \hDA, mnemonic |-> "*NOP", len |-> 1, cycles |-> 2, mode |-> "NoneAddressing"],
      [code |-> \hFA, mnemonic |-> "*NOP", len |-> 1, cycles |-> 2, mode |-> "NoneAddressing"],
      [code |-> \hAB, mnemonic |-> "*LXA", len |-> 2, cycles |-> 3, mode |-> "Immediate"],
      [code |-> \h8B, mnemonic |-> "*XAA", len |-> 2, cycles |-> 3, mode |-> "Immediate"],
      [code |-> \hBB, mnemonic |-> "*LAS", len |-> 3, cycles |-> 2, mode |-> "AbsoluteY"],
      [code |-> \h9B, mnemonic |-> "*TAS", len |-> 3, cycles |-> 2, mode |-> "AbsoluteY"],
      [code |-> \h93, mnemonic |-> "*AHX", len |-> 2, cycles |-> 8, mode |-> "IndirectY"],
      [code |-> \h9F, mnemonic |-> "*AHX", len |-> 3, cycles |-> 4, mode |-> "AbsoluteY"],
      [code |-> \h9E, mnemonic |-> "*SHX", len |-> 3, cycles |-> 4, mode |-> "AbsoluteY"],
      [code |-> \h9C, mnemonic |-> "*SHY", len |-> 3, cycles |-> 4, mode |-> "AbsoluteX"],
      [code |-> \hA7, mnemonic |-> "*LAX", len |-> 2, cycles |-> 3, mode |-> "ZeroPage"],
      [code |-> \hB7, mnemonic |-> "*LAX", len |-> 2, cycles |-> 4, mode |-> "ZeroPageY"],
      [code |-> \hAF, mnemonic |-> "*LAX", len |-> 3, cycles |-> 4, mode |-> "Absolute"],
      [code |-> \hBF, mnemonic |-> "*LAX", len |-> 3, cycles |-> 4, mode |-> "AbsoluteY"],
      [code |-> \hA3, mnemonic |-> "*LAX", len |-> 2, cycles |-> 6, mode |-> "IndirectX"],
      [code |-> \hB3, mnemonic |-> "*LAX", len |-> 2, cycles |-> 5, mode |-> "IndirectY"],
      [code |-> \h87, mnemonic |-> "*SAX", len |-> 2, cycles |-> 3, mode |-> "ZeroPage"],
      [code |-> \h97, mnemonic |-> "*SAX", len |-> 2, cycles |-> 4, mode |-> "ZeroPageY"],
      [code |-> \h8F, mnemonic |-> "*SAX", len |-> 3, cycles |-> 4, mode |-> "Absolute"],
      [code |-> \h83, mnemonic |-> "*SAX", len |-> 2, cycles |-> 6, mode |-> "IndirectX"]
    >>

\* a faulty map that lacks the last entry of the table
OPCODES_MAP_WithoutLast ==
    [code \in {CPUOPSCODES[i].code : i \in 1..(Len(CPUOPSCODES) - 1)} |->
        CPUOPSCODES[CHOOSE i \in DOMAIN CPUOPSCODES : CPUOPSCODES[i].code = code]]

\* a faulty map whose descriptor of STA zero page (0x85) has no addressing mode
OPCODES_MAP_StoreWithoutMode ==
    [code \in {CPUOPSCODES[i].code : i \in DOMAIN CPUOPSCODES} |->
        LET last_i == CHOOSE i \in DOMAIN CPUOPSCODES :
                        /\ CPUOPSCODES[i].code = code
                        /\ \A j \in DOMAIN CPUOPSCODES : CPUOPSCODES[j].code = code => j <= i
        IN  IF code = \h85 THEN [CPUOPSCODES[last_i] EXCEPT !.mode = "NoneAddressing"]
            ELSE CPUOPSCODES[last_i]]

\* lazy_static OPCODES_MAP: a later entry for a code replaces an earlier one
OPCODES_MAP ==
    [code \in {CPUOPSCODES[i].code : i \in DOMAIN CPUOPSCODES} |->
        LET last_i == CHOOSE i \in DOMAIN CPUOPSCODES :
                        /\ CPUOPSCODES[i].code = code
                        /\ \A j \in DOMAIN CPUOPSCODES : CPUOPSCODES[j].code = code => j <= i
        IN  CPUOPSCODES[last_i]]

\* the `match code` of Assembler::interpret, BRK's arm apart; the handlers of
\* cpu.rs that are one call or one assignment are written in their arm
Dispatch(c, code, opcode) ==
    CASE code \in {\h69, \h65, \h75, \h6D, \h7D, \h79, \h61, \h71} -> adc(c, opcode.mode)
      [] code \in {\h29, \h25, \h35, \h2D, \h3D, \h39, \h21, \h31} -> and(c, opcode.mode)
      [] code = \h0A -> asl_accumulator(c)
      [] code \in {\h06, \h16, \h0E, \h1E} -> asl(c, opcode.mode).cpu
      [] code = \h90 -> branch(c, Bit(c.register_p, CARRY) = 0)    \* bcc
      [] code = \hB0 -> branch(c, Bit(c.register_p, CARRY) = 1)    \* bcs
      [] code = \hF0 -> branch(c, Bit(c.register_p, ZERO) = 1)    \* beq
      [] code \in {\h24, \h2C} -> bit(c, opcode.mode)
      [] code = \h30 -> branch(c, Bit(c.register_p, NEGATIVE) = 1)    \* bmi
      [] code = \hD0 -> branch(c, Bit(c.register_p, ZERO) = 0)    \* bne
      [] code = \h10 -> branch(c, Bit(c.register_p, NEGATIVE) = 0)    \* bpl
      [] code = \h50 -> branch(c, Bit(c.register_p, OVERFLOW) = 0)    \* bvc
      [] code = \h70 -> branch(c, Bit(c.register_p, OVERFLOW) = 1)    \* bvs
      [] code = \h18 -> put_flag(c, CARRY, FALSE)    \* clc
      [] code = \hD8 -> put_flag(c, DECIMAL_MODE, FALSE)    \* cld
      [] code = \h58 -> put_flag(c, INTERRUPT_DISABLE, FALSE)    \* cli
      [] code = \hB8 -> put_flag(c, OVERFLOW, FALSE)    \* clv
      [] code \in {\hC9, \hC5, \hD5, \hCD, \hDD, \hD9, \hC1, \hD1} -> compare(c, opcode.mode, c.register_a)    \* cmp
      [] code \in {\hE0, \hE4, \hEC} -> compare(c, opcode.mode, c.register_x)    \* cpx
      [] code \in {\hC0, \hC4, \hCC} -> compare(c, opcode.mode, c.register_y)    \* cpy
      [] code \in {\hC6, \hD6, \hCE, \hDE} -> dec(c, opcode.mode).cpu
      [] code = \hCA -> set_register(c, "register_x", WrapSub8(c.register_x, 1))    \* dex
      [] code = \h88 -> set_register(c, "register_y", WrapSub8(c.register_y, 1))    \* dey
      [] code \in {\h49, \h45, \h55, \h4D, \h5D, \h59, \h41, \h51} -> eor(c, opcode.mode)
      [] code \in {\hE6, \hF6, \hEE, \hFE} -> inc(c, opcode.mode).cpu
      [] code = \hE8 -> set_register(c, "register_x", WrapAdd8(c.register_x, 1))    \* inx
      [] code = \hC8 -> set_register(c, "register_y", WrapAdd8(c.register_y, 1))    \* iny
      [] code = \h4C -> jmp_absolute(c)
      [] code = \h6C -> jmp_indirect(c)
      [] code = \h20 -> jsr(c)
      [] code \in {\hA9, \hA5, \hB5, \hAD, \hBD, \hB9, \hA1, \hB1} -> lda(c, opcode.mode)
      [] code \in {\hA2, \hA6, \hB6, \hAE, \hBE} -> ldx(c, opcode.mode)
      [] code \in {\hA0, \hA4, \hB4, \hAC, \hBC} -> ldy(c, opcode.mode)
      [] code = \h4A -> lsr_accumulator(c)
      [] code \in {\h46, \h56, \h4E, \h5E} -> lsr(c, opcode.mode).cpu
      [] code \in {\hEA, \h80, \h82, \h89, \hC2, \hE2, \h02, \h12, \h22, \h32, \h42, \h52,
                    \h62, \h72, \h92, \hB2, \hD2, \hF2, \h1A, \h3A, \h5A, \h7A, \hDA, \hFA} -> c
      [] code \in {\h09, \h05, \h15, \h0D, \h1D, \h19, \h01, \h11} -> ora(c, opcode.mode)
      [] code = \h48 -> stack_push(c, c.register_a)    \* pha
      [] code = \h08 -> php(c)
      [] code = \h68 -> pla(c)
      [] code = \h28 -> plp(c)
      [] code = \h2A -> rol_accumulator(c)
      [] code \in {\h26, \h36, \h2E, \h3E} -> rol(c, opcode.mode).cpu
      [] code = \h6A -> ror_accumulator(c)
      [] code \in {\h66, \h76, \h6E, \h7E} -> ror(c, opcode.mode).cpu
      [] code = \h40 -> rti(c)
      [] code = \h60 -> rts(c)
      [] code \in {\hE9, \hE5, \hF5, \hED, \hFD, \hF9, \hE1, \hF1} -> sbc(c, opcode.mode)
      [] code = \h38 -> put_flag(c, CARRY, TRUE)    \* sec
      [] code = \hF8 -> put_flag(c, DECIMAL_MODE, TRUE)    \* sed
      [] code = \h78 -> put_flag(c, INTERRUPT_DISABLE, TRUE)    \* sei
      [] code \in {\h85, \h95, \h8D, \h9D, \h99, \h81, \h91} -> sta(c, opcode.mode)
      [] code \in {\h86, \h96, \h8E} -> stx(c, opcode.mode)
      [] code \in {\h84, \h94, \h8C} -> sty(c, opcode.mode)
      [] code = \hAA -> set_register(c, "register_x", c.register_a)    \* tax
      [] code = \hA8 -> set_register(c, "register_y", c.register_a)    \* tay
      [] code = \hBA -> set_register(c, "register_x", c.register_sp)    \* tsx
      [] code = \h8A -> set_register(c, "register_a", c.register_x)    \* txa
      [] code = \h9A -> [c EXCEPT !.register_sp = c.register_x]    \* txs
      [] code = \h98 -> set_register(c, "register_a", c.register_y)    \* tya
      [] code \in {\hC7, \hD7, \hCF, \hDF, \hDB, \hD3, \hC3} -> dcp(c, opcode.mode)
      [] code \in {\h27, \h37, \h2F, \h3F, \h3B, \h33, \h23} -> rla(c, opcode.mode)
      [] code \in {\h07, \h17, \h0F, \h1F, \h1B, \h03, \h13} -> slo(c, opcode.mode)
      [] code \in {\h47, \h57, \h4F, \h5F, \h5B, \h43, \h53} -> sre(c, opcode.mode)
      [] code = \hCB -> axs(c, opcode.mode)
      [] code = \h6B -> arr(c, opcode.mode)
      [] code = \hEB -> unofficial_sbc(c, opcode.mode)
      [] code \in {\h0B, \h2B} -> anc(c, opcode.mode)
      [] code = \h4B -> alr(c, opcode.mode)
      [] code \in {\h04, \h44, \h64, \h14, \h34, \h54, \h74, \hD4, \hF4, \h0C, \h1C, \h3C,
                    \h5C, \h7C, \hDC, \hFC} -> nop_read(c, opcode.mode)
      [] code \in {\h67, \h77, \h6F, \h7F, \h7B, \h63, \h73} -> rra(c, opcode.mode)
      [] code \in {\hE7, \hF7, \hEF, \hFF, \hFB, \hE3, \hF3} -> isb(c, opcode.mode)
      [] code \in {\hA7, \hB7, \hAF, \hBF, \hA3, \hB3} -> lax(c, opcode.mode)
      [] code \in {\h87, \h97, \h8F, \h83} -> sax(c, opcode.mode)
      [] code = \hAB -> lxa(c, opcode.mode)
      [] code = \h8B -> xaa(c, opcode.mode)
      [] code = \hBB -> las(c, opcode.mode)
      [] code = \h9B -> tas(c)
      [] code = \h93 -> axa_indirect(c)
      [] code = \h9F -> axa_absolute(c)
      [] code = \h9E -> sxa(c)
      [] code = \h9C -> sya(c)

\* CPU::update_pc
update_pc(c, opcode, pc_state) ==
    Bind([c EXCEPT !.bus = BUS_tick(@, opcode.cycles)], LAMBDA c1 :
        LET pc == Add16(c1.register_pc, opcode.len - 1)
        IN  Live(c1, IF pc_state = c1.register_pc
                     THEN IF pc.ok THEN [c1 EXCEPT !.register_pc = pc.val]
                          ELSE [c1 EXCEPT !.panic = OverflowPanic]
                     ELSE c1))

\* a faulty interpreter for which the force-break does not end the program
interpret_BrkContinues(c, code) ==
    LET pc_state == c.register_pc
    IN  IF code \notin DOMAIN OPCODES_MAP
        THEN [cpu |-> [c EXCEPT !.panic = "OpCode is not recognized"], ret |-> FALSE]
        ELSE LET opcode == OPCODES_MAP[code]
             IN  IF code = \h00 THEN [cpu |-> c, ret |-> FALSE]
                 ELSE Bind(Dispatch(c, code, opcode), LAMBDA c1 :
                        [cpu |-> Live(c1, update_pc(c1, opcode, pc_state)), ret |-> FALSE])

\* Assembler::interpret: the new CPU value and `program_ends`
interpret(c, code) ==
    LET pc_state == c.register_pc
    IN  IF code \notin DOMAIN OPCODES_MAP
        THEN [cpu |-> [c EXCEPT !.panic = "OpCode is not recognized"], ret |-> FALSE]
        ELSE LET opcode == OPCODES_MAP[code]
             IN  IF code = \h00 THEN [cpu |-> c, ret |-> TRUE]
                 ELSE Bind(Dispatch(c, code, opcode), LAMBDA c1 :
                        [cpu |-> Live(c1, update_pc(c1, opcode, pc_state)), ret |-> FALSE])

\* a faulty interrupt entry that leaves the interrupt-disable flag alone
interrupt_nmi_KeepsFlags(c) ==
    Bind(stack_push_u16(c, c.register_pc), LAMBDA c1 :
        LET flag == SetBit(SetBit(c1.register_p, BREAK, FALSE), UNUSED, TRUE)
        IN  Bind(stack_push(c1, flag), LAMBDA c2 :
            Bind([c2 EXCEPT !.bus = BUS_tick(@, 2)], LAMBDA c4 :
            Bind(CPU_memory_read_u16(c4, \hFFFA), LAMBDA pc :
                 Live(c4, Live(pc.cpu, [pc.cpu EXCEPT !.register_pc = pc.ret]))))))

\* CPU::interrupt_nmi
interrupt_nmi(c) ==
    Bind(stack_push_u16(c, c.register_pc), LAMBDA c1 :
        LET flag == SetBit(SetBit(c1.register_p, BREAK, FALSE), UNUSED, TRUE)
        IN  Bind(stack_push(c1, flag), LAMBDA c2 :
            Bind([c2 EXCEPT !.register_p = SetBit(@, INTERRUPT_DISABLE, TRUE)], LAMBDA c3 :
            Bind([c3 EXCEPT !.bus = BUS_tick(@, 2)], LAMBDA c4 :
            Bind(CPU_memory_read_u16(c4, \hFFFA), LAMBDA pc :
                 Live(c4, Live(pc.cpu, [pc.cpu EXCEPT !.register_pc = pc.ret])))))))

\* CPU::reset
CPU_reset(c) ==
    LET c1 == [c EXCEPT !.register_a = 0, !.register_x = 0, !.register_y = 0,
                        !.register_sp = STACK_RESET, !.register_p = 36]
    IN  Bind(CPU_memory_read_u16(c1, \hFFFC),
             LAMBDA pc : Live(pc.cpu, [pc.cpu EXCEPT !.register_pc = pc.ret]))

\* CPU::run_with_callback, first half of an iteration: the interrupt poll
RunPoll(c) ==
    Bind(BUS_poll_nmi_status(c.bus), LAMBDA r :
        LET c1 == [c EXCEPT !.bus = r.bus]
        IN  IF r.ret # None THEN interrupt_nmi(c1) ELSE c1)

\* CPU::run_with_callback, second half of an iteration: fetch, interpret, callback
RunFetch(c) ==
    Bind(CPU_memory_read(c, c.register_pc), LAMBDA code :
        LET pc == Add16(code.cpu.register_pc, 1)
        IN  IF Dead(code.cpu) THEN [cpu |-> code.cpu, ret |-> FALSE]
            ELSE IF ~pc.ok THEN [cpu |-> [code.cpu EXCEPT !.panic = OverflowPanic], ret |-> FALSE]
            ELSE interpret([code.cpu EXCEPT !.register_pc = pc.val], code.ret))

\* a 32 KiB program ROM holding the byte sequences of segs, each a pair
\* <<CPU address of the first byte, bytes>>, and zero elsewhere
PrgRom(segs) ==
    LET cells == UNION {{<<seg[1] - \h8000 + i - 1, seg[2][i]>> : i \in DOMAIN seg[2]} : seg \in segs}
        used == {cell[1] : cell \in {x \in cells : x[2] # 0}}
    IN  [len |-> 32768, bytes |-> [i \in used |-> (CHOOSE cell \in cells : cell[1] = i)[2]]]

\* the cartridge ROM::new gives for a 32 KiB program, 8 KiB of zero graphics
\* data and horizontal mirroring
Rom(prg_rom) ==
    [prg_rom |-> prg_rom,
     chr_rom |-> [len |-> 8192, bytes |-> ZeroArray],
     screen_mirroring |-> "Horizontal"]

\* a cartridge whose program and graphics data are all zero
EmptyRom == Rom(PrgRom({}))

(***************************************************************************)
(* SpecFrame: PPU::tick alone, from a freshly constructed PPU, over the    *)
(* dots of one frame.                                                      *)
(***************************************************************************)
FrameDots == DotsPerLine * LinesPerFrame

\* the largest `cycles: u8` of PPU::tick
MaxU8 == 255

TickSizes == (1..MaxSmallTick) \cup {d \in 1..MaxU8 : d % TickStride = 0} \cup {MaxU8}

InitFrame ==
    /\ overflow_checks \in BOOLEAN
    /\ cpu = CPU_new(BUS_new(EmptyRom))
    /\ loop = "poll"
    /\ last = [op |-> "new", ret |-> FALSE]
    /\ dots = 0
    /\ hist = <<>>

\* one call ppu.tick(d) on the PPU of the session
FrameTick(d) ==
    /\ dots + d <= FrameDots
    /\ LET r == PPU_tick(cpu.bus.ppu, d) IN
        /\ cpu' = [cpu EXCEPT !.bus.ppu = r.ppu]
        /\ last' = [op |-> "tick", ret |-> r.ret]
    /\ dots' = dots + d
    /\ UNCHANGED <<loop, overflow_checks, hist>>

NextFrame == \E d \in TickSizes : FrameTick(d)

SpecFrame == InitFrame /\ [][NextFrame]_vars

\* C1: from a fresh PPU, while the tick(d) calls (1 <= d <= 255) sum to less
\* than 341 * 262 none has returned true; the call that brings the sum to
\* exactly 341 * 262 returns true, the only one to do so, and leaves scanline 0
\* with vblank, sprite-zero-hit and the pending NMI request all clear.
C1_OneFramePerFrameDots ==
    LET ppu == cpu.bus.ppu IN
    /\ dots < FrameDots => ppu.frames = 0 /\ last.ret = FALSE
    /\ dots = FrameDots =>
         /\ ppu.frames = 1 /\ last.ret = TRUE
         /\ ppu.scanline = 0
         /\ ~is_in_vblank(ppu.status)
         /\ Bit(ppu.status, SPRITE_ZERO_HIT) = 0
         /\ ppu.nmi_interrupt = None

C1_Witness == dots = FrameDots /\ last.op = "tick" /\ cpu.bus.ppu.cycles = 0

(***************************************************************************)
(* SpecPPU: the PPU's timing and its control, status and poll operations   *)
(***************************************************************************)
\* Ticks stop once MaxFrames frames are complete.
MaxFrames == 1

\* At most MaxStrides strides of dots go into one tick.
MaxStrides == 8

\* the largest divisor of the line length that fits a u8: ticks of whole
\* strides keep the dot counter on the multiples of the stride
PpuTickStride ==
    CHOOSE s \in 2..MaxU8 :
        /\ DotsPerLine % s = 0
        /\ \A t \in 2..MaxU8 : DotsPerLine % t = 0 => t <= s

PpuTickSizes == {k * PpuTickStride : k \in 1..MaxStrides} \cap (1..MaxU8)

\* the bytes written to the control register: NMI off, NMI on, NMI on with
\* another bit
ControlValues == {\h00, \h80, \h90}

InitPPU == InitFrame

\* ppu.tick(d)
PpuTick(d) ==
    /\ cpu.bus.ppu.frames < MaxFrames
    /\ LET r == PPU_tick(cpu.bus.ppu, d) IN
        /\ cpu' = [cpu EXCEPT !.bus.ppu = r.ppu]
        /\ last' = [op |-> "tick", ret |-> r.ret]
    /\ UNCHANGED <<loop, overflow_checks, dots, hist>>

\* ppu.write_to_control(value)
PpuWriteControl(value) ==
    /\ cpu' = [cpu EXCEPT !.bus.ppu = PPU_write_to_control(@, value)]
    /\ last' = [op |-> "write_to_control", ret |-> FALSE]
    /\ UNCHANGED <<loop, overflow_checks, dots, hist>>

\* ppu.read_status()
PpuReadStatus ==
    /\ LET r == PPU_read_status(cpu.bus.ppu) IN
        /\ cpu' = [cpu EXCEPT !.bus.ppu = r.ppu]
        /\ last' = [op |-> "read_status", ret |-> r.ret,
                    toggles |-> <<cpu.bus.ppu.address.high_pointer, cpu.bus.ppu.scroll.latch>>]
    /\ UNCHANGED <<loop, overflow_checks, dots, hist>>

\* ppu.poll_nmi_interrupt()
PpuPoll ==
    /\ LET r == PPU_poll_nmi_interrupt(cpu.bus.ppu) IN
        /\ cpu' = [cpu EXCEPT !.bus.ppu = r.ppu]
        /\ last' = [op |-> "poll_nmi_interrupt", ret |-> r.ret]
    /\ UNCHANGED <<loop, overflow_checks, dots, hist>>

NextPPU ==
    \/ \E d \in PpuTickSizes : PpuTick(d)
    \/ \E value \in ControlValues : PpuWriteControl(value)
    \/ PpuReadStatus
    \/ PpuPoll

SpecPPU == InitPPU /\ [][NextPPU]_vars

\* C2: the tick that advances the scanline counter to 241 sets vblank-started,
\* clears sprite-zero-hit and raises an NMI request exactly when the control
\* register's NMI-enable bit is set; every other tick neither sets
\* vblank-started nor raises a request.
C2_VblankOnlyAtLine241 ==
    [][last'.op = "tick" =>
        LET p == cpu.bus.ppu
            q == cpu'.bus.ppu
        IN  IF q.scanline = VblankLine /\ p.scanline # VblankLine
            THEN /\ is_in_vblank(q.status)
                 /\ Bit(q.status, SPRITE_ZERO_HIT) = 0
                 /\ generate_vblank_nmi(p.control) => q.nmi_interrupt = Some(1)
                 /\ ~generate_vblank_nmi(p.control) => q.nmi_interrupt = p.nmi_interrupt
            ELSE /\ is_in_vblank(q.status) => is_in_vblank(p.status)
                 /\ q.nmi_interrupt # None => q.nmi_interrupt = p.nmi_interrupt
    ]_vars

C2_Witness ==
    /\ last.op = "tick"
    /\ cpu.bus.ppu.scanline = VblankLine
    /\ cpu.bus.ppu.cycles < PpuTickStride
    /\ is_in_vblank(cpu.bus.ppu.status)
    /\ cpu.bus.ppu.nmi_interrupt = Some(1)

\* C9: a write to the control register raises an NMI request exactly when
\* NMI-enable was clear before the write, is set by the written value, and
\* vblank-started is set at the time of the write; any other write leaves the
\* request as it was.
C9_ControlWriteRaisesNmi ==
    [][last'.op = "write_to_control" =>
        LET p == cpu.bus.ppu
            q == cpu'.bus.ppu
            raise == /\ ~generate_vblank_nmi(p.control)
                     /\ generate_vblank_nmi(q.control)
                     /\ is_in_vblank(p.status)
        IN  /\ raise => q.nmi_interrupt = Some(1)
            /\ ~raise => q.nmi_interrupt = p.nmi_interrupt
    ]_vars

C9_Witness ==
    /\ last.op = "write_to_control"
    /\ cpu.bus.ppu.scanline > VblankLine
    /\ is_in_vblank(cpu.bus.ppu.status)
    /\ cpu.bus.ppu.control = \h90
    /\ cpu.bus.ppu.nmi_interrupt = Some(1)

(***************************************************************************)
(* SpecRegs: the PPU's registers between coarse ticks                      *)
(***************************************************************************)
\* the byte written to the scroll register and the byte written to the
\* address register
ScrollValue == \h15
AddressValue == \h23

\* ppu.write_to_scroll(value)
PpuWriteScroll(value) ==
    /\ cpu' = [cpu EXCEPT !.bus.ppu = PPU_write_to_scroll(@, value)]
    /\ last' = [op |-> "write_to_scroll", ret |-> FALSE]
    /\ UNCHANGED <<loop, overflow_checks, dots, hist>>

\* ppu.write_to_ppu_address(value)
PpuWriteAddress(value) ==
    /\ cpu' = [cpu EXCEPT !.bus.ppu = PPU_write_to_ppu_address(@, value)]
    /\ last' = [op |-> "write_to_ppu_address", ret |-> FALSE]
    /\ UNCHANGED <<loop, overflow_checks, dots, hist>>

NextRegs ==
    \/ PpuTick(MaxU8)
    \/ \E value \in ControlValues : PpuWriteControl(value)
    \/ PpuWriteScroll(ScrollValue)
    \/ PpuWriteAddress(AddressValue)
    \/ PpuReadStatus
    \/ PpuPoll

SpecRegs == InitPPU /\ [][NextRegs]_vars

\* C10: a status read returns the status byte as it was, clears only the
\* vblank-started bit, puts the address toggle and the scroll toggle back to
\* "first write", and changes nothing else: not the other status bits, the
\* VRAM address, the scroll values, a pending NMI request, the scanline or
\* the dot counter.
C10_StatusReadEffect ==
    [][last'.op = "read_status" =>
        LET p == cpu.bus.ppu
            q == cpu'.bus.ppu
        IN  /\ last'.ret = p.status
            /\ q.status = SetBit(p.status, VBLANK_STARTED, FALSE)
            /\ q.address.high_pointer = TRUE
            /\ q.scroll.latch = FALSE
            /\ AddressRegister_get(q.address) = AddressRegister_get(p.address)
            /\ q.scroll.scroll_x = p.scroll.scroll_x
            /\ q.scroll.scroll_y = p.scroll.scroll_y
            /\ q.nmi_interrupt = p.nmi_interrupt
            /\ q.scanline = p.scanline
            /\ q.cycles = p.cycles
            /\ \A f \in DOMAIN p \ {"status", "address", "scroll"} : q[f] = p[f]
            /\ cpu' = [cpu EXCEPT !.bus.ppu = q]
    ]_vars

C10_Witness ==
    /\ last.op = "read_status"
    /\ last.ret = \h80
    /\ last.toggles = <<FALSE, TRUE>>
    /\ cpu.bus.ppu.status = 0
    /\ cpu.bus.ppu.nmi_interrupt = Some(1)
    /\ AddressRegister_get(cpu.bus.ppu.address) = AddressValue * 256
    /\ cpu.bus.ppu.scroll.scroll_x = ScrollValue
    /\ cpu.bus.ppu.scanline > VblankLine
    /\ cpu.bus.ppu.cycles > 0

(***************************************************************************)
(* SpecBus: BUS::tick alone, with the cycle counts instructions report     *)
(***************************************************************************)
\* the largest cycle count an instruction reports: the largest `cycles` of the
\* descriptor table (an interrupt entry reports 2)
MaxBusTick ==
    CHOOSE m \in 0..MaxU8 :
        /\ \E i \in DOMAIN CPUOPSCODES : CPUOPSCODES[i].cycles = m
        /\ \A i \in DOMAIN CPUOPSCODES : CPUOPSCODES[i].cycles <= m

\* Bus ticks stop once MaxBusFrames frames are complete.
MaxBusFrames == 2

\* bus.tick(c)
BusTick(c) ==
    /\ cpu.bus.ppu.frames < MaxBusFrames
    /\ cpu' = [cpu EXCEPT !.bus = BUS_tick(@, c)]
    /\ last' = [op |-> "bus_tick", ret |-> FALSE]
    /\ UNCHANGED <<loop, overflow_checks, dots, hist>>

NextBus == \E c \in 0..MaxBusTick : BusTick(c)

SpecBus == InitFrame /\ [][NextBus]_vars

\* the dots the PPU has counted since it was constructed
PpuDots(p) == p.frames * FrameDots + p.scanline * DotsPerLine + p.cycles

\* C5: a bus tick of c cycles (c <= 8) advances the PPU by exactly 3 * c dots
\* and has called the per-frame callback, by the time it returns, once if the
\* PPU tick reported a complete frame and not at all otherwise; the callback
\* count is always the number of completed frames.
C5_BusTickThreeDotsPerCycle ==
    [][last'.op = "bus_tick" =>
        LET b == cpu.bus
            b2 == cpu'.bus
            c == b2.cycles - b.cycles
        IN  /\ c \in 0..MaxBusTick
            /\ PpuDots(b2.ppu) = PpuDots(b.ppu) + 3 * c
            /\ b2.ppu.frames - b.ppu.frames \in {0, 1}
            /\ b2.callbacks - b.callbacks = b2.ppu.frames - b.ppu.frames
            /\ b2.callbacks = b2.ppu.frames
            /\ ~BusDead(b2)
    ]_vars

C5_Witness ==
    /\ last.op = "bus_tick"
    /\ cpu.bus.callbacks = 1
    /\ cpu.bus.ppu.frames = 1
    /\ cpu.bus.ppu.scanline = 0
    /\ cpu.bus.ppu.cycles < 3 * MaxBusTick
    /\ cpu.bus.cycles * 3 = FrameDots + cpu.bus.ppu.cycles

(***************************************************************************)
(* SpecRun: CPU::run_with_callback from reset, on cartridges whose         *)
(* programs enable the NMI at chosen moments of the first frame            *)
(***************************************************************************)
\* Instructions are fetched until MaxRunFrames frames are complete.
MaxRunFrames == 1

\* The delay programs pad with MinNops..MaxNops NOP instructions.
MinNops == 6
MaxNops == 9

\* the stack pointers the NMI program starts from
StackStarts == {\hFD, \h01}

\* the interrupt handler all programs share, and the NMI and reset vectors
NmiHandler == <<\h9000, <<\hE6, \h10,      \* 9000  INC $10
                          \h40>>>>         \* 9002  RTI
Vectors == <<\hFFFA, <<\h00, \h90,          \* NMI   -> 9000
                       \h00, \h80>>>>       \* RESET -> 8000

\* a program that enables the NMI at once and waits in a loop: the request
\* is raised by the tick that reaches scanline 241
RomNmi(s) ==
    Rom(PrgRom({NmiHandler, Vectors,
                <<\h8000, <<\hA2, s,             \* 8000  LDX #s
                            \h9A,                \* 8002  TXS
                            \h58,                \* 8003  CLI
                            \hA9, \h80,          \* 8004  LDA #$80
                            \h8D, \h00, \h20,    \* 8006  STA $2000
                            \h4C, \h09, \h80     \* 8009  JMP $8009
                          >>>>}))

\* a program that counts 29 * 1026 + 4 cycles down, pads with k NOPs and then
\* enables the NMI: for the k of MinNops..MaxNops the write falls in the last
\* dots of scanline 261
RomDelay(k) ==
    Rom(PrgRom({NmiHandler, Vectors,
                <<\h8000, <<\h58,                \* 8000  CLI
                            \hEA,                \* 8001  NOP
                            \hA0, \h1D,          \* 8002  LDY #29
                            \hA2, \hFF,          \* 8004  LDX #$FF
                            \hCA,                \* 8006  DEX
                            \hD0, \hFD,          \* 8007  BNE $8006
                            \h88,                \* 8009  DEY
                            \hD0, \hF8           \* 800A  BNE $8004
                          >>
                          \o [i \in 1..k |-> \hEA]            \* 800C  NOP (k times)
                          \o <<\hA9, \h80,                     \*       LDA #$80
                               \h8D, \h00, \h20,               \*       STA $2000
                               \h4C, (\h11 + k) % 256, \h80    \*       JMP to itself
                             >>>>}))

RunRoms == {RomNmi(s) : s \in StackStarts} \cup {RomDelay(k) : k \in MinNops..MaxNops}

\* CPU::new on a bus with the cartridge, then CPU::reset
InitRun ==
    /\ overflow_checks \in BOOLEAN
    /\ \E rom \in RunRoms : cpu = CPU_reset(CPU_new(BUS_new(rom)))
    /\ loop = "poll"
    /\ last = [op |-> "new", ret |-> FALSE]
    /\ dots = 0
    /\ hist = <<>>

\* the run loop at `if let Some(_nmi) = self.bus.pool_nmi_status()`
Poll ==
    /\ loop = "poll"
    /\ cpu' = RunPoll(cpu)
    /\ loop' = IF Dead(cpu') THEN "panic" ELSE "fetch"
    /\ last' = [op |-> "poll", ret |-> cpu.bus.ppu.nmi_interrupt # None]
    /\ UNCHANGED <<overflow_checks, dots, hist>>

\* the run loop from `let code = self.memory_read(self.register_pc)` to the
\* end of the iteration
Fetch ==
    /\ loop = "fetch"
    /\ cpu.bus.ppu.frames < MaxRunFrames
    /\ \E r \in {RunFetch(cpu)} :
        /\ cpu' = r.cpu
        /\ loop' = IF Dead(r.cpu) THEN "panic" ELSE IF r.ret THEN "ended" ELSE "poll"
        /\ last' = [op |-> "fetch", ret |-> r.ret]
    /\ UNCHANGED <<overflow_checks, dots, hist>>

NextRun == Poll \/ Fetch

SpecRun == InitRun /\ [][NextRun]_vars

\* C3: when the poll before a fetch finds an NMI request pending, the entry
\* stores the program counter's high byte at 0x0100+SP, its low byte in the
\* next lower stack slot and the flags byte, break clear and unused set, in the
\* slot below that (slots wrap within the stack page), leaves SP decreased by
\* 3 mod 256, sets interrupt-disable and no other flag, advances the bus by 2
\* CPU cycles (6 PPU dots) and loads the program counter from the
\* little-endian word at 0xFFFA/0xFFFB; the fetch comes after all of it
C3_NmiEntry ==
    [][(loop = "poll" /\ cpu.bus.ppu.nmi_interrupt # None) =>
        LET sp == cpu.register_sp
            pc == cpu.register_pc
            ram == cpu'.bus.cpu_vram
        IN  /\ loop' = "fetch"
            /\ ArrayGet(ram, STACK + sp) = pc \div 256
            /\ ArrayGet(ram, STACK + WrapSub8(sp, 1)) = pc % 256
            /\ ArrayGet(ram, STACK + WrapSub8(sp, 2))
                 = SetBit(SetBit(cpu.register_p, BREAK, FALSE), UNUSED, TRUE)
            /\ cpu'.register_sp = WrapSub8(sp, 3)
            /\ cpu'.register_p = SetBit(cpu.register_p, INTERRUPT_DISABLE, TRUE)
            /\ cpu'.bus.cycles = cpu.bus.cycles + 2
            /\ PpuDots(cpu'.bus.ppu) = PpuDots(cpu.bus.ppu) + 6
            /\ cpu'.register_pc = BUS_memory_read(cpu.bus, \hFFFA).ret
                                  + 256 * BUS_memory_read(cpu.bus, \hFFFB).ret]_vars

\* an entry taken with SP = 0x01 and interrupt-disable clear: the pushes
\* wrapped from slot 0x0100 to slot 0x01FF and the handler is about to run
C3_Witness ==
    /\ loop = "fetch"
    /\ last = [op |-> "poll", ret |-> TRUE]
    /\ cpu.register_sp = \hFE
    /\ cpu.register_pc = \h9000
    /\ ArrayGet(cpu.bus.cpu_vram, \h01FF) = \hA0
    /\ cpu.register_p = \hA4

\* the instruction of this step raised an NMI request: its tick reached
\* scanline 241 with NMI generation enabled, or it enabled NMI generation
\* while vblank-started was set
RaisedDuring ==
    LET p == cpu.bus.ppu
        q == cpu'.bus.ppu
    IN  \/ p.scanline < VblankLine /\ q.scanline = VblankLine /\ generate_vblank_nmi(q.control)
        \/ ~generate_vblank_nmi(p.control) /\ generate_vblank_nmi(q.control) /\ is_in_vblank(p.status)

\* the poll of this step entered the interrupt handler
EnteredNmi ==
    /\ cpu'.register_sp = WrapSub8(cpu.register_sp, 3)
    /\ cpu'.register_pc = BUS_memory_read(cpu.bus, \hFFFA).ret
                          + 256 * BUS_memory_read(cpu.bus, \hFFFB).ret

\* C4 as stated: a request raised while an instruction executes is pending at
\* the poll that follows the instruction (and so causes an entry there)
C4_EveryRaisedRequestIsPolled ==
    [][(loop = "fetch" /\ RaisedDuring) => cpu'.bus.ppu.nmi_interrupt # None]_vars

\* C4, amended: a poll that finds a request takes it and enters the handler
\* once; a poll that finds none changes nothing; no request is pending at a
\* fetch; and a request raised while an instruction executes is pending at the
\* next poll unless the PPU completed the frame within that instruction, which
\* clears the request; a request is pending after an instruction only if the
\* instruction raised it
C4_RequestTakenOnceUnlessFrameEnds ==
    [][/\ (loop = "poll" /\ cpu.bus.ppu.nmi_interrupt # None) =>
            /\ EnteredNmi
            /\ cpu'.bus.ppu.nmi_interrupt = None
            /\ loop' = "fetch"
       /\ (loop = "poll" /\ cpu.bus.ppu.nmi_interrupt = None) => cpu' = cpu
       /\ loop = "fetch" =>
            /\ cpu.bus.ppu.nmi_interrupt = None
            /\ (RaisedDuring /\ cpu'.bus.ppu.frames = cpu.bus.ppu.frames) =>
                    cpu'.bus.ppu.nmi_interrupt = Some(1)
            /\ cpu'.bus.ppu.nmi_interrupt # None => RaisedDuring]_vars

\* a request raised by a control write on scanline 261 has been taken: the
\* handler is entered before the frame ends
C4_Witness ==
    /\ loop = "fetch"
    /\ last = [op |-> "poll", ret |-> TRUE]
    /\ cpu.register_pc = \h9000
    /\ cpu.bus.ppu.scanline = LinesPerFrame - 1
    /\ cpu.bus.ppu.nmi_interrupt = None

(***************************************************************************)
(* SpecStep: one instruction of any opcode, with chosen operand bytes,     *)
(* at a chosen address of RAM or of the program ROM                        *)
(***************************************************************************)
\* One instruction is run: no opcode is fetched once MaxStepCycles CPU cycles
\* have passed.
MaxStepCycles == 1

\* the addresses the instruction is placed at: RAM, the start of the program
\* ROM and the last two bytes of the address space
StepAddresses == {\h0600, \h8000, \hFFFE}

\* the bytes after the opcode: the descriptor's length says how many of them
\* are operand bytes, the others are zero; a branch takes every displacement
OperandBytes == {\h00, \h01, \h7F, \h80, \hFF}
HighBytes == {\h00, \h06, \h20, \h80}
BranchCodes == {\h10, \h30, \h50, \h70, \h90, \hB0, \hD0, \hF0}

\* the register values and processor flags the instruction starts from
StepRegisters == {<<\h00, \h00, \h00>>, <<\h80, \h01, \hFF>>}
StepFlags == {\h24, \hE7}

\* a session whose memory holds the bytes of instruction at the addresses from
\* pc on: bytes below 0x2000 are written to RAM through the bus, as the tests
\* of trace.rs do, and bytes from 0x8000 on are the cartridge's program ROM
StepSession(pc, instruction, registers, flags) ==
    LET at == [i \in DOMAIN instruction |-> (pc + i - 1) % 65536]
        rom == Rom(PrgRom({<<at[i], <<instruction[i]>>>> : i \in {j \in DOMAIN at : at[j] >= \h8000}}))
        Write(b, i) == IF at[i] <= \h1FFF THEN BUS_memory_write(b, at[i], instruction[i]) ELSE b
        bus == Write(Write(Write(BUS_new(rom), 1), 2), 3)
    IN  [CPU_new(bus) EXCEPT !.register_pc = pc,
                             !.register_a = registers[1],
                             !.register_x = registers[2],
                             !.register_y = registers[3],
                             !.register_p = flags]

InitStep ==
    /\ overflow_checks \in BOOLEAN
    /\ \E code \in 0..255, pc \in StepAddresses, registers \in StepRegisters, flags \in StepFlags :
         \E b1 \in CASE OPCODES_MAP[code].len = 1 -> {\h00}
                     [] code \in BranchCodes -> 0..255
                     [] OTHER -> OperandBytes,
            b2 \in IF OPCODES_MAP[code].len = 3 THEN HighBytes ELSE {\h00} :
            cpu = StepSession(pc, <<code, b1, b2>>, registers, flags)
    /\ loop = "poll"
    /\ last = [op |-> "new", ret |-> FALSE]
    /\ dots = 0
    /\ hist = <<>>

\* the run loop's fetch of the one instruction
StepFetch == cpu.bus.cycles < MaxStepCycles /\ Fetch

NextStep == Poll \/ StepFetch

SpecStep == InitStep /\ [][NextStep]_vars

\* the byte at address in the current state (RAM and ROM reads change nothing)
Peek(address) == BUS_memory_read(cpu.bus, address % 65536).ret

\* the little-endian word at address and address + 1
PeekWord(address) == Peek(address) + 256 * Peek(address + 1)

\* the opcodes that transfer control: the branches, JMP absolute and indirect,
\* JSR, RTS, RTI and BRK
ControlTransfers == BranchCodes \cup {\h4C, \h6C, \h20, \h60, \h40, \h00}

\* the message of the panic that ended the session c, NoPanic if none did
PanicMessage(c) ==
    IF c.panic # NoPanic THEN c.panic
    ELSE IF c.bus.panic # NoPanic THEN c.bus.panic
    ELSE c.bus.ppu.panic

\* the condition of the branch opcode code under the flags byte flags
BranchTaken(code, flags) ==
    CASE code = \h10 -> Bit(flags, NEGATIVE) = 0     \* BPL
      [] code = \h30 -> Bit(flags, NEGATIVE) = 1     \* BMI
      [] code = \h50 -> Bit(flags, OVERFLOW) = 0     \* BVC
      [] code = \h70 -> Bit(flags, OVERFLOW) = 1     \* BVS
      [] code = \h90 -> Bit(flags, CARRY) = 0        \* BCC
      [] code = \hB0 -> Bit(flags, CARRY) = 1        \* BCS
      [] code = \hD0 -> Bit(flags, ZERO) = 0         \* BNE
      [] code = \hF0 -> Bit(flags, ZERO) = 1         \* BEQ

\* C6: after an instruction whose opcode is not a control transfer and whose
\* opcode byte is at p, the program counter is p plus the descriptor's length
\* (mod 65536), and the run goes on to the next poll; an instruction stopped
\* by one of the fatal errors of the bus or the PPU has not executed
C6_PcAdvancesByLength ==
    [][(/\ loop = "fetch"
        /\ Peek(cpu.register_pc) \notin ControlTransfers
        /\ PanicMessage(cpu') \in {NoPanic, OverflowPanic}) =>
            /\ loop' = "poll"
            /\ cpu'.register_pc
                 = (cpu.register_pc + OPCODES_MAP[Peek(cpu.register_pc)].len) % 65536]_vars

\* LDA #$01 at 0xFFFE has loaded the accumulator and ticked the bus, and the
\* session has ended in the overflow panic of the program-counter advance
C6_Witness ==
    /\ loop = "panic"
    /\ cpu.panic = OverflowPanic
    /\ Peek(\hFFFE) = \hA9
    /\ cpu.register_pc = \hFFFF
    /\ cpu.register_a = \h01
    /\ cpu.bus.cycles = 2

\* C7: a conditional branch at p with displacement d leaves the program
\* counter at (p + 2 + d) mod 65536 when its condition holds, for every d in
\* -128..127, and at p + 2 when it does not
C7_BranchTarget ==
    [][(/\ loop = "fetch"
        /\ Peek(cpu.register_pc) \in BranchCodes
        /\ loop' = "poll") =>
            cpu'.register_pc
              = IF BranchTaken(Peek(cpu.register_pc), cpu.register_p)
                THEN (cpu.register_pc + 2 + AsI8(Peek(cpu.register_pc + 1))) % 65536
                ELSE (cpu.register_pc + 2) % 65536]_vars

\* BNE with displacement -1 at 0x0600, zero flag clear, has been taken and
\* the program counter is 0x0602, not 0x0601
C7_Witness ==
    /\ loop = "poll"
    /\ last.op = "fetch"
    /\ Peek(\h0600) = \hD0
    /\ Peek(\h0601) = \hFF
    /\ Bit(cpu.register_p, ZERO) = 0
    /\ cpu.register_pc = \h0602
    /\ cpu.bus.cycles = 2

\* the address JMP indirect at p jumps to: the word at the operand address,
\* its high byte taken from the start of the page when the operand address
\* ends in 0xFF
IndirectTarget(pointer) ==
    IF pointer % 256 = \hFF
    THEN Peek(pointer) + 256 * Peek(pointer - \hFF)
    ELSE PeekWord(pointer)

\* C8: JMP absolute, JMP indirect and JSR leave the program counter at their
\* target, whatever the target is
C8_JumpTarget ==
    [][(/\ loop = "fetch"
        /\ Peek(cpu.register_pc) \in {\h4C, \h6C, \h20}
        /\ loop' = "poll") =>
            cpu'.register_pc
              = IF Peek(cpu.register_pc) = \h6C
                THEN IndirectTarget(PeekWord(cpu.register_pc + 1))
                ELSE PeekWord(cpu.register_pc + 1)]_vars

\* JMP $0601 at 0x0600 has executed and the program counter is 0x0603
C8_Witness ==
    /\ loop = "poll"
    /\ last.op = "fetch"
    /\ Peek(\h0600) = \h4C
    /\ PeekWord(\h0601) = \h0601
    /\ cpu.register_pc = \h0603
    /\ cpu.register_sp = STACK_RESET

\* where the instruction code leaves the value it loads or computes: a
\* register, the memory cell of its operand, or nowhere the flags follow
FlagTarget(code) ==
    LET op == OPCODES_MAP[code]
        shift == op.mnemonic \in {"ASL", "LSR", "ROL", "ROR"}
    IN  CASE op.mnemonic \in {"LDA", "TXA", "TYA", "PLA", "ADC", "SBC", "AND", "ORA", "EOR"}
               -> "register_a"
          [] shift /\ op.mode = "NoneAddressing" -> "register_a"
          [] op.mnemonic \in {"LDX", "TAX", "TSX", "INX", "DEX"} -> "register_x"
          [] op.mnemonic \in {"LDY", "TAY", "INY", "DEY"} -> "register_y"
          [] shift /\ op.mode # "NoneAddressing" -> "memory"
          [] op.mnemonic \in {"INC", "DEC"} -> "memory"
          [] OTHER -> "none"

\* the operand address of the instruction about to be fetched in c
OperandCell(c) ==
    get_operand_address([c EXCEPT !.register_pc = (@ + 1) % 65536],
                        OPCODES_MAP[Peek(c.register_pc)].mode).ret

\* the zero and negative flags of the session c are those of the byte value
FlagsFollow(c, value) ==
    /\ (Bit(c.register_p, ZERO) = 1) = (value = 0)
    /\ Bit(c.register_p, NEGATIVE) = value \div 128

\* C24: after every instruction that loads or computes a new accumulator,
\* index-register or memory value (loads, transfers, pulls, arithmetic, logic,
\* increments, decrements, shifts and rotates, on the accumulator and on
\* memory) the zero flag is (new value = 0) and the negative flag is bit 7 of
\* the new value; a value computed into memory is read back from work RAM.
C24_ZeroNegativeFollowValue ==
    [][(loop = "fetch" /\ ~Dead(cpu')) =>
         \E target \in {FlagTarget(Peek(cpu.register_pc))} :
            /\ target \in {"register_a", "register_x", "register_y"} =>
                 FlagsFollow(cpu', cpu'[target])
            /\ target = "memory" =>
                 \E address \in {OperandCell(cpu)} :
                    address <= \h1FFF =>
                        FlagsFollow(cpu', ArrayGet(cpu'.bus.cpu_vram, address % 2048))
    ]_vars

\* ROL $00 on a memory byte 0 with carry and zero set: the byte is 1 and the
\* zero flag is still set
C24_Witness ==
    /\ last.op = "fetch"
    /\ ~Dead(cpu)
    /\ Peek(\h0600) = \h26
    /\ Peek(\h0601) = \h00
    /\ cpu.register_pc = \h0602
    /\ ArrayGet(cpu.bus.cpu_vram, 0) = 1
    /\ Bit(cpu.register_p, ZERO) = 1
    /\ Bit(cpu.register_p, CARRY) = 0

(***************************************************************************)
(* SpecVram: the PPU's address and data registers, on a PPU whose graphics *)
(* ROM, nametable memory and palette memory hold known bytes               *)
(***************************************************************************)
\* Each behaviour performs at most MaxVramSteps register operations.
MaxVramSteps == 7

\* 8 KiB of graphics ROM (one page, as ROM::new cuts it) with three known bytes
VramChr == [len |-> 8192, bytes |-> (0 :> \h11 @@ 1 :> \h12 @@ 32 :> \h13)]

\* the bytes the tests of ppu.rs store into the pub fields vram and
\* palette_table before they drive the registers
VramCells == (\h0300 :> \h66 @@ \h0301 :> \h67 @@ \h0320 :> \h68)
PaletteCells == (0 :> \h2A @@ 1 :> \h2B)

\* the bytes written to the address register: with 0x00 and 0xFF they reach
\* graphics ROM, nametable 0, the range 0x3000-0x3EFF and the palette
AddressBytes == {\h00, \h23, \h30, \hFF}

\* the byte written to the data register
DataValue == \h77

\* the bytes written to the control register: increment 1, increment 32
IncrementValues == {\h00, \h04}

InitVram ==
    /\ overflow_checks \in BOOLEAN
    /\ cpu = [CPU_new(BUS_new(EmptyRom)) EXCEPT
                !.bus.ppu = [PPU_new(VramChr, "Horizontal") EXCEPT
                                !.vram = VramCells, !.palette_table = PaletteCells]]
    /\ loop = "poll"
    /\ last = [op |-> "new", ret |-> 0]
    /\ dots = 0
    /\ hist = [steps |-> 0, writes |-> 0]

\* the PPU can take one more operation
VramLive == hist.steps < MaxVramSteps /\ cpu.bus.ppu.panic = NoPanic

\* ppu.write_to_ppu_address(value); hist.writes counts the address writes
\* since construction or the last status read
VramWriteAddress(value) ==
    /\ VramLive
    /\ cpu' = [cpu EXCEPT !.bus.ppu = PPU_write_to_ppu_address(@, value)]
    /\ last' = [op |-> "write_to_ppu_address", ret |-> 0, value |-> value]
    /\ hist' = [hist EXCEPT !.steps = @ + 1, !.writes = @ + 1]
    /\ UNCHANGED <<loop, overflow_checks, dots>>

\* ppu.read_status()
VramReadStatus ==
    /\ VramLive
    /\ \E r \in {PPU_read_status(cpu.bus.ppu)} :
        /\ cpu' = [cpu EXCEPT !.bus.ppu = r.ppu]
        /\ last' = [op |-> "read_status", ret |-> r.ret]
    /\ hist' = [hist EXCEPT !.steps = @ + 1, !.writes = 0]
    /\ UNCHANGED <<loop, overflow_checks, dots>>

\* ppu.read_data()
VramReadData ==
    /\ VramLive
    /\ \E r \in {PPU_read_data(cpu.bus.ppu)} :
        /\ cpu' = [cpu EXCEPT !.bus.ppu = r.ppu]
        /\ last' = [op |-> "read_data", ret |-> r.ret]
    /\ hist' = [hist EXCEPT !.steps = @ + 1]
    /\ UNCHANGED <<loop, overflow_checks, dots>>

\* ppu.write_to_data(value)
VramWriteData(value) ==
    /\ VramLive
    /\ cpu' = [cpu EXCEPT !.bus.ppu = PPU_write_to_data(@, value)]
    /\ last' = [op |-> "write_to_data", ret |-> 0, value |-> value]
    /\ hist' = [hist EXCEPT !.steps = @ + 1]
    /\ UNCHANGED <<loop, overflow_checks, dots>>

\* ppu.write_to_control(value)
VramWriteControl(value) ==
    /\ VramLive
    /\ cpu' = [cpu EXCEPT !.bus.ppu = PPU_write_to_control(@, value)]
    /\ last' = [op |-> "write_to_control", ret |-> 0, value |-> value]
    /\ hist' = [hist EXCEPT !.steps = @ + 1]
    /\ UNCHANGED <<loop, overflow_checks, dots>>

\* ppu.write_to_scroll(value)
VramWriteScroll(value) ==
    /\ VramLive
    /\ cpu' = [cpu EXCEPT !.bus.ppu = PPU_write_to_scroll(@, value)]
    /\ last' = [op |-> "write_to_scroll", ret |-> 0, value |-> value]
    /\ hist' = [hist EXCEPT !.steps = @ + 1]
    /\ UNCHANGED <<loop, overflow_checks, dots>>

NextVram ==
    \/ \E value \in AddressBytes : VramWriteAddress(value)
    \/ VramReadStatus
    \/ VramReadData
    \/ VramWriteData(DataValue)
    \/ \E value \in IncrementValues : VramWriteControl(value)
    \/ VramWriteScroll(ScrollValue)

SpecVram == InitVram /\ [][NextVram]_vars

\* C11: the k-th address-register write since construction or since the most
\* recent status read sets the high byte of the VRAM address when k is odd
\* and the low byte when k is even, whatever other register operations come
\* between the writes; the other byte keeps its value.
C11_AddressWritesAlternate ==
    [][last'.op = "write_to_ppu_address" =>
        LET p == cpu.bus.ppu.address
            q == cpu'.bus.ppu.address
        IN  IF hist'.writes % 2 = 1
            THEN /\ q.high = last'.value % 64
                 /\ q.low = p.low
            ELSE /\ q.low = last'.value
                 /\ q.high = p.high
    ]_vars

\* an odd number (one) of address writes, a status read, then the write of
\* 0x23: it went to the high byte
C11_Witness ==
    /\ last.op = "write_to_ppu_address"
    /\ last.value = \h23
    /\ hist.steps = 3
    /\ hist.writes = 1
    /\ AddressRegister_get(cpu.bus.ppu.address) = \h2300

\* C12: the VRAM address never exceeds 0x3FFF: the two bytes written to the
\* address register give the written 16-bit value modulo 0x4000, and every
\* data read or data write that completes advances the address by 1 when
\* control bit 2 is clear and by 32 when it is set, modulo 0x4000.
C12_AddressStaysIn14Bits ==
    [][LET p == cpu.bus.ppu
           q == cpu'.bus.ppu
           written == IF hist'.writes % 2 = 1
                      THEN last'.value * 256 + p.address.low
                      ELSE p.address.high * 256 + last'.value
           step == IF Bit(p.control, VRAM_ADD_INCREMENT) = 0 THEN 1 ELSE 32
       IN  /\ AddressRegister_get(q.address) <= \h3FFF
           /\ last'.op = "write_to_ppu_address" =>
                AddressRegister_get(q.address) = written % \h4000
           /\ last'.op \in {"read_data", "write_to_data"} /\ q.panic = NoPanic =>
                AddressRegister_get(q.address)
                    = (AddressRegister_get(p.address) + step) % \h4000
    ]_vars

\* increment 32 selected, the address set to 0x2300, two data reads: the
\* address is 0x2340 and the buffer holds the byte stored at 0x2320
C12_Witness ==
    /\ last.op = "read_data"
    /\ Bit(cpu.bus.ppu.control, VRAM_ADD_INCREMENT) = 1
    /\ AddressRegister_get(cpu.bus.ppu.address) = \h2340
    /\ cpu.bus.ppu.internal_data_buf = VramCells[\h0320]
    /\ cpu.bus.ppu.panic = NoPanic

\* the byte stored at VRAM address a below 0x3F00: graphics ROM below 0x2000,
\* the nametable cell the mirroring gives from 0x2000 on
StoredByte(p, a) ==
    IF a < \h2000 THEN ArrayGet(p.chr_rom.bytes, a)
    ELSE ArrayGet(p.vram, mirror_vram_address(p.mirroring, a))

\* the palette byte at VRAM address a, 0x3F00 and above
PaletteByte(p, a) == ArrayGet(p.palette_table, (a - \h3F00) % PaletteSize)

\* C13: a data read with the VRAM address below 0x3F00 returns the byte the
\* internal buffer held and leaves in the buffer the byte stored at that
\* address; a data read at 0x3F00 or above returns the palette byte at once
\* and leaves the buffer as it was.
C13_BufferedRead ==
    [][last'.op = "read_data" =>
        LET p == cpu.bus.ppu
            q == cpu'.bus.ppu
            a == AddressRegister_get(p.address)
        IN  /\ q.panic = NoPanic
            /\ IF a < \h3F00
               THEN /\ last'.ret = p.internal_data_buf
                    /\ q.internal_data_buf = StoredByte(p, a)
               ELSE /\ last'.ret = PaletteByte(p, a)
                    /\ q.internal_data_buf = p.internal_data_buf
    ]_vars

\* the data read issued at 0x3000 has ended the session
C13_Witness ==
    /\ last.op = "read_data"
    /\ cpu.bus.ppu.panic = "not implemented: address shouldn't be used"
    /\ AddressRegister_get(cpu.bus.ppu.address) = \h3001
    /\ hist.steps = 3

(***************************************************************************)
(* SpecMirror: the nametable mirroring tests of ppu.rs, for every pair of  *)
(* nametable addresses 0x400 or 0x800 apart: set the address, write a      *)
(* byte, set the other address, read twice                                 *)
(***************************************************************************)
\* the nametable addresses and the distances between the two of a pair
NametableAddresses == \h2000..\h2FFF
PairDistances == {\h400, \h800}

\* the two mirroring modes of PPU::mirror_vram_address's table
MirrorModes == {"Vertical", "Horizontal"}

\* PPU::new(vec![0; 2048], mirroring), as the tests construct it; hist holds
\* the address written through and the address read through
InitMirror ==
    /\ overflow_checks \in BOOLEAN
    /\ \E mirroring \in MirrorModes :
         cpu = [CPU_new(BUS_new(EmptyRom)) EXCEPT
                  !.bus.ppu = PPU_new([len |-> 2048, bytes |-> ZeroArray], mirroring)]
    /\ loop = "poll"
    /\ last = [op |-> "new", ret |-> 0]
    /\ dots = 0
    /\ \E a \in NametableAddresses, d \in PairDistances :
         /\ a + d \in NametableAddresses
         /\ \/ hist = [steps |-> 0, source |-> a, target |-> a + d]
            \/ hist = [steps |-> 0, source |-> a + d, target |-> a]

\* ppu.write_to_ppu_address(high byte), ppu.write_to_ppu_address(low byte):
\* the first pair of calls sets the source address, the second the target
MirrorWriteAddress ==
    /\ hist.steps \in {0, 1, 3, 4}
    /\ \E address \in {IF hist.steps < 2 THEN hist.source ELSE hist.target} :
       \E value \in {IF hist.steps \in {0, 3} THEN address \div 256 ELSE address % 256} :
         /\ cpu' = [cpu EXCEPT !.bus.ppu = PPU_write_to_ppu_address(@, value)]
         /\ last' = [op |-> "write_to_ppu_address", ret |-> 0, value |-> value]
    /\ hist' = [hist EXCEPT !.steps = @ + 1]
    /\ UNCHANGED <<loop, overflow_checks, dots>>

\* ppu.write_to_data(value) at the source address
MirrorWriteData(value) ==
    /\ hist.steps = 2
    /\ cpu' = [cpu EXCEPT !.bus.ppu = PPU_write_to_data(@, value)]
    /\ last' = [op |-> "write_to_data", ret |-> 0, value |-> value]
    /\ hist' = [hist EXCEPT !.steps = @ + 1]
    /\ UNCHANGED <<loop, overflow_checks, dots>>

\* ppu.read_data() at the target address (load into buffer), then
\* ppu.read_data() again
MirrorReadData ==
    /\ hist.steps \in {5, 6}
    /\ \E r \in {PPU_read_data(cpu.bus.ppu)} :
        /\ cpu' = [cpu EXCEPT !.bus.ppu = r.ppu]
        /\ last' = [op |-> "read_data", ret |-> r.ret]
    /\ hist' = [hist EXCEPT !.steps = @ + 1]
    /\ UNCHANGED <<loop, overflow_checks, dots>>

NextMirror == MirrorWriteAddress \/ MirrorWriteData(DataValue) \/ MirrorReadData

SpecMirror == InitMirror /\ [][NextMirror]_vars

\* the lower address of the pair and the distance between the two
PairLow == IF hist.source < hist.target THEN hist.source ELSE hist.target
PairDistance == IF hist.source < hist.target THEN hist.target - hist.source
                ELSE hist.source - hist.target

\* C14: with vertical mirroring a and a + 0x800 (a in 0x2000-0x27FF) are one
\* storage cell and a and a + 0x400 (a in 0x2000-0x23FF) are two; with
\* horizontal mirroring a and a + 0x400 (a in 0x2000-0x23FF or 0x2800-0x2BFF)
\* are one cell and a and a + 0x800 (a in 0x2000-0x27FF) are two; the byte
\* written through one address of a pair that is one cell is the byte the
\* data read at the other address fetches into the buffer and the next data
\* read, when it completes, returns; the byte written through one address of
\* a pair that is two cells is not.
C14_MirroredPairs ==
    LET ppu == cpu.bus.ppu
        one == \/ ppu.mirroring = "Vertical" /\ PairDistance = \h800
                    /\ PairLow \in \h2000..\h27FF
               \/ ppu.mirroring = "Horizontal" /\ PairDistance = \h400
                    /\ PairLow \in (\h2000..\h23FF) \cup (\h2800..\h2BFF)
        two == \/ ppu.mirroring = "Vertical" /\ PairDistance = \h400
                    /\ PairLow \in \h2000..\h23FF
               \/ ppu.mirroring = "Horizontal" /\ PairDistance = \h800
                    /\ PairLow \in \h2000..\h27FF
        source_cell == mirror_vram_address(ppu.mirroring, hist.source)
        target_cell == mirror_vram_address(ppu.mirroring, hist.target)
        fetched == IF hist.steps = 6 THEN ppu.internal_data_buf ELSE last.ret
        done == hist.steps = 6 \/ (hist.steps = 7 /\ ppu.panic = NoPanic)
    IN  /\ hist.steps <= 6 => ppu.panic = NoPanic
        /\ one => source_cell = target_cell
        /\ two => source_cell # target_cell
        /\ done /\ one => fetched = DataValue
        /\ done /\ two => fetched = 0

\* vertical mirroring, the byte written through 0x2C05 and read through 0x2405
C14_Witness ==
    /\ hist.steps = 7
    /\ hist.source = \h2C05
    /\ hist.target = \h2405
    /\ cpu.bus.ppu.mirroring = "Vertical"
    /\ last.op = "read_data"
    /\ last.ret = DataValue
    /\ ArrayGet(cpu.bus.ppu.vram, \h0405) = DataValue

(***************************************************************************)
(* SpecDma: the sprite-memory DMA through the bus, on a cartridge with one *)
(* 16 KiB page of program ROM and with known bytes in work RAM             *)
(***************************************************************************)
\* Each behaviour performs at most MaxDmaSteps bus operations.
MaxDmaSteps == 3

\* the byte the session holds at offset i of the RAM page 0x0200 and of the
\* program ROM
RamByte(i) == (3 * i + 1) % 256
RomByte(i) == (5 * i + 2) % 256

\* a zero-initialised array holding Byte(i - base) at the indices of range
Filled(range, base, Cell(_)) ==
    [i \in {j \in range : Cell(j - base) # 0} |-> Cell(i - base)]

\* ROM::new for an image with one program page and one graphics page
Rom16k ==
    [prg_rom |-> [len |-> 16384, bytes |-> Filled(0..255, 0, RomByte)],
     chr_rom |-> [len |-> 8192, bytes |-> ZeroArray],
     screen_mirroring |-> "Horizontal"]

\* the source pages: RAM, a RAM mirror, the PPU registers, the I/O
\* registers, no defined range, program ROM, the ROM's mirror
DmaPages == {\h02, \h0A, \h20, \h40, \h50, \h80, \hC0}

\* the bytes written to the sprite-memory address register
OamAddresses == {\h00, \h10, \hFF}

\* BUS::new, then the RAM page 0x0200 filled (as by 256 memory_write calls)
InitDma ==
    /\ overflow_checks \in BOOLEAN
    /\ cpu = [CPU_new(BUS_new(Rom16k)) EXCEPT
                !.bus.cpu_vram = Filled(\h0200..\h02FF, \h0200, RamByte)]
    /\ loop = "poll"
    /\ last = [op |-> "new", ret |-> 0]
    /\ dots = 0
    /\ hist = [steps |-> 0]

DmaLive == hist.steps < MaxDmaSteps /\ ~BusDead(cpu.bus)

\* bus.memory_write(0x2003, value)
DmaWriteOamAddress(value) ==
    /\ DmaLive
    /\ cpu' = [cpu EXCEPT !.bus = BUS_memory_write(@, \h2003, value)]
    /\ last' = [op |-> "write_oam_address", ret |-> 0, value |-> value]
    /\ hist' = [hist EXCEPT !.steps = @ + 1]
    /\ UNCHANGED <<loop, overflow_checks, dots>>

\* bus.memory_write(0x4014, page)
DmaTransfer(page) ==
    /\ DmaLive
    /\ cpu' = [cpu EXCEPT !.bus = BUS_memory_write(@, \h4014, page)]
    /\ last' = [op |-> "dma", ret |-> 0, value |-> page]
    /\ hist' = [hist EXCEPT !.steps = @ + 1]
    /\ UNCHANGED <<loop, overflow_checks, dots>>

\* bus.memory_read(0x2004)
DmaReadOam ==
    /\ DmaLive
    /\ \E r \in {BUS_memory_read(cpu.bus, \h2004)} :
        /\ cpu' = [cpu EXCEPT !.bus = r.bus]
        /\ last' = [op |-> "read_oam_data", ret |-> r.ret]
    /\ hist' = [hist EXCEPT !.steps = @ + 1]
    /\ UNCHANGED <<loop, overflow_checks, dots>>

NextDma ==
    \/ \E value \in OamAddresses : DmaWriteOamAddress(value)
    \/ \E page \in DmaPages : DmaTransfer(page)
    \/ DmaReadOam

SpecDma == InitDma /\ [][NextDma]_vars

\* C15: a bus write of d to 0x4014 stores, at sprite-memory index
\* (oam_address + i) mod 256 for i = 0..255, the byte the bus read of
\* d * 256 + i returns, the reads being made in increasing order of i through
\* the bus read path (a RAM mirror page gives the RAM page's bytes, the
\* mirror of a 16 KiB ROM gives the ROM's bytes); oam_address is afterwards
\* what it was, and nothing but sprite memory differs from the state the
\* reads leave.
C15_OamDma ==
    [][last'.op = "dma" =>
        \E r \in {DmaFill(cpu.bus, last'.value * 256, 0, <<>>)} :
            LET b == cpu.bus
                b2 == cpu'.bus
                d == last'.value
                o == b.ppu.oam_address
            IN  /\ ~BusDead(b2)
                /\ Len(r.buffer) = 256
                /\ \A i \in 0..255 :
                     /\ ArrayGet(b2.ppu.oam_data, (o + i) % 256) = r.buffer[i + 1]
                     /\ d \in {\h02, \h0A} => r.buffer[i + 1] = RamByte(i)
                     /\ d \in {\h80, \hC0} => r.buffer[i + 1] = RomByte(i)
                     /\ d = \h50 => r.buffer[i + 1] = 0
                /\ b2.ppu.oam_address = o
                /\ b2 = [r.bus EXCEPT !.ppu.oam_data = b2.ppu.oam_data]
    ]_vars

\* the transfer from the RAM mirror page 0x0A00 with oam_address 0x10: byte 0
\* is at index 0x10 and byte 255 at index 0x0F
C15_Witness ==
    /\ last.op = "dma"
    /\ last.value = \h0A
    /\ cpu.bus.ppu.oam_address = \h10
    /\ ArrayGet(cpu.bus.ppu.oam_data, \h10) = RamByte(0)
    /\ ArrayGet(cpu.bus.ppu.oam_data, \h0F) = RamByte(255)
    /\ ArrayGet(cpu.bus.ppu.oam_data, \h11) = RamByte(1)

(***************************************************************************)
(* SpecMem: bus reads and writes at one probed address and its mirrors, on *)
(* a cartridge with one 16 KiB page of program ROM                         *)
(***************************************************************************)
\* Each behaviour performs at most MaxMemSteps bus operations.
MaxMemSteps == 2

\* the probed addresses: RAM, the PPU registers, the I/O registers, every
\* address of no defined range, and program ROM
RamProbes == {\h0000, \h0123, \h07FF}
RegisterProbes == \h2000..\h2007
IoProbes == {\h4000, \h4014, \h4015, \h4016, \h4017}
UnmappedAddresses == \h4018..\h7FFF
RomProbes == {\h8000, \h8001, \h80FF, \hBFFF}
ProbeAddresses ==
    RamProbes \cup RegisterProbes \cup IoProbes \cup UnmappedAddresses \cup RomProbes

\* the probed address and the addresses the range table mirrors onto it
Aliases(a) ==
    CASE a \in RamProbes -> {a, a + \h0800, a + \h1800}
      [] a \in RegisterProbes -> {a, a + 8, a + \h1FF8}
      [] a \in RomProbes -> {a, a + \h4000}
      [] OTHER -> {a}

\* the byte and the word the operations write
MemByte == \h5A
MemWord == \hA55A

\* BUS::new; hist.ram is the history of the bytes written to RAM, by the low
\* 11 bits of the address written
InitMem ==
    /\ overflow_checks \in BOOLEAN
    /\ cpu = CPU_new(BUS_new(Rom16k))
    /\ loop = "poll"
    /\ last = [op |-> "new", ret |-> 0]
    /\ dots = 0
    /\ \E a \in ProbeAddresses : hist = [steps |-> 0, probe |-> a, ram |-> <<>>]

MemLive == hist.steps < MaxMemSteps /\ ~BusDead(cpu.bus)

\* the history of RAM bytes after the byte value is written at address
Written(ram, address, value) ==
    IF address <= \h1FFF THEN (address % 2048 :> value) @@ ram ELSE ram

\* bus.memory_read(address)
MemRead(address) ==
    /\ MemLive
    /\ \E r \in {BUS_memory_read(cpu.bus, address)} :
        /\ cpu' = [cpu EXCEPT !.bus = r.bus]
        /\ last' = [op |-> "memory_read", ret |-> r.ret, address |-> address]
    /\ hist' = [hist EXCEPT !.steps = @ + 1]
    /\ UNCHANGED <<loop, overflow_checks, dots>>

\* bus.memory_write(address, value)
MemWrite(address, value) ==
    /\ MemLive
    /\ cpu' = [cpu EXCEPT !.bus = BUS_memory_write(@, address, value)]
    /\ last' = [op |-> "memory_write", ret |-> 0, address |-> address, value |-> value]
    /\ hist' = [hist EXCEPT !.steps = @ + 1, !.ram = Written(@, address, value)]
    /\ UNCHANGED <<loop, overflow_checks, dots>>

\* bus.memory_write_u16(address, value)
MemWriteU16(address, value) ==
    /\ MemLive
    /\ cpu' = [cpu EXCEPT !.bus = BUS_memory_write_u16(@, address, value)]
    /\ last' = [op |-> "memory_write_u16", ret |-> 0, address |-> address, value |-> value]
    /\ hist' = [hist EXCEPT !.steps = @ + 1,
                            !.ram = Written(Written(@, address, value % 256),
                                            address + 1, value \div 256)]
    /\ UNCHANGED <<loop, overflow_checks, dots>>

NextMem ==
    \E address \in Aliases(hist.probe) :
        \/ MemRead(address)
        \/ MemWrite(address, MemByte)
        \/ MemWriteU16(address, MemWord)

SpecMem == InitMem /\ [][NextMem]_vars

\* C16: a read in 0x0000-0x1FFF returns the byte last written through any
\* address with the same low 11 bits; a read or write in 0x2000-0x3FFF has
\* the effect and the result of the same operation on the register at
\* 0x2000 + (address mod 8); with a 16 KiB program ROM a read at a in
\* 0x8000-0xFFFF returns the ROM byte at (a - 0x8000) mod 0x4000, so a and
\* a + 0x4000 read the same byte.
C16_MirroredDecode ==
    [][LET a == last'.address
           register == \h2000 + (a % 8)
       IN  /\ last'.op = "memory_read" /\ a <= \h1FFF =>
                /\ last'.ret = ArrayGet(hist.ram, a % 2048)
                /\ cpu'.bus = cpu.bus
           /\ last'.op = "memory_read" /\ a \in \h2000..\h3FFF =>
                \E r \in {BUS_memory_read(cpu.bus, register)} :
                    last'.ret = r.ret /\ cpu'.bus = r.bus
           /\ last'.op = "memory_write" /\ a \in \h2000..\h3FFF =>
                cpu'.bus = BUS_memory_write(cpu.bus, register, last'.value)
           /\ last'.op = "memory_read" /\ a >= \h8000 =>
                /\ last'.ret = ArrayGet(Rom16k.prg_rom.bytes, (a - \h8000) % \h4000)
                /\ cpu'.bus = cpu.bus
    ]_vars

\* the byte written through 0x0923 is read through 0x1923, both mirrors of
\* RAM cell 0x0123
C16_Witness ==
    /\ hist.steps = 2
    /\ hist.probe = \h0123
    /\ hist.ram = (\h0123 :> MemByte)
    /\ last.op = "memory_read"
    /\ last.address = \h1923
    /\ last.ret = MemByte

\* a write is a write into the ROM range
RomRange == \h8000..\hFFFF

\* C17: a bus write to an address in 0x8000-0xFFFF, as a byte write or as
\* either byte of a 16-bit write, ends the session in a panic and leaves work
\* RAM, the PPU, the joypad, the cycle counter and the program ROM as they
\* were.
C17_RomWriteIsFatal ==
    [][LET a == last'.address
           fatal == \/ last'.op = "memory_write" /\ a \in RomRange
                    \/ last'.op = "memory_write_u16" /\ a \in RomRange
                    \/ last'.op = "memory_write_u16" /\ a + 1 \in RomRange
       IN  fatal =>
             /\ cpu'.bus.panic = "Attempt to write to Cartridge ROM space"
             /\ cpu'.bus = [cpu.bus EXCEPT !.panic = cpu'.bus.panic]
    ]_vars

\* the 16-bit write at 0x7FFF, whose high byte lands on 0x8000
C17_Witness ==
    /\ last.op = "memory_write_u16"
    /\ last.address = \h7FFF
    /\ cpu.bus.panic = "Attempt to write to Cartridge ROM space"
    /\ cpu.bus.cpu_vram = ZeroArray

\* C18: a bus read at an address of no defined range (0x4018-0x7FFF) returns
\* 0, a bus write there does nothing, and neither ends the session or changes
\* work RAM, the PPU, the joypad or the cycle counter.
C18_UnmappedIsNoOp ==
    [][LET a == last'.address IN
       /\ last'.op = "memory_read" /\ a \in UnmappedAddresses =>
            last'.ret = 0 /\ cpu'.bus = cpu.bus
       /\ last'.op = "memory_write" /\ a \in UnmappedAddresses =>
            cpu'.bus = cpu.bus
       /\ last'.op = "memory_write_u16" /\ a \in UnmappedAddresses
            /\ a + 1 \in UnmappedAddresses =>
            cpu'.bus = cpu.bus
    ]_vars

\* a read at 0x4018 after a write at 0x4018
C18_Witness ==
    /\ hist.steps = 2
    /\ last.op = "memory_read"
    /\ last.address = \h4018
    /\ last.ret = 0
    /\ ~BusDead(cpu.bus)
    /\ cpu.bus = BUS_new(Rom16k)


(***************************************************************************)
(* SpecJoy: the input latch at 0x4016, written and read through the bus,   *)
(* with the host setting the button-state byte                             *)
(***************************************************************************)
\* Each behaviour performs at most MaxJoySteps bus operations on the latch
\* and at most MaxHostWrites changes of the button-state byte.
MaxJoySteps == 12
MaxHostWrites == 1

\* the button-state bytes the host sets, and the bytes written to the latch
ButtonStates == {\h01, \hA5, \hFF}
StrobeValues == {0, 1, 2, 3}

\* BUS::new; hist.phase is "held" after a write with bit 0 set, "released"
\* after a write with bit 0 clear that follows it, and hist.reads counts the
\* reads since then
InitJoy ==
    /\ overflow_checks \in BOOLEAN
    /\ cpu = CPU_new(BUS_new(Rom16k))
    /\ loop = "poll"
    /\ last = [op |-> "new", ret |-> 0]
    /\ dots = 0
    /\ hist = [steps |-> 0, phase |-> "none", reads |-> 0, hosts |-> 0]

JoyLive == hist.steps < MaxJoySteps /\ ~BusDead(cpu.bus)

\* the host sets the button-state byte through the handle its callback is given
HostButtons(status) ==
    /\ hist.hosts < MaxHostWrites
    /\ ~BusDead(cpu.bus)
    /\ cpu' = [cpu EXCEPT !.bus.joypad1.button_status = status]
    /\ last' = [op |-> "host", ret |-> 0]
    /\ hist' = [hist EXCEPT !.hosts = @ + 1]
    /\ UNCHANGED <<loop, overflow_checks, dots>>

\* bus.memory_write(0x4016, value)
JoyWrite(value) ==
    /\ JoyLive
    /\ cpu' = [cpu EXCEPT !.bus = BUS_memory_write(@, \h4016, value)]
    /\ last' = [op |-> "write", ret |-> 0]
    /\ hist' = [hist EXCEPT !.steps = @ + 1,
                            !.phase = IF value % 2 = 1 THEN "held"
                                      ELSE IF @ = "held" THEN "released" ELSE @,
                            !.reads = IF value % 2 = 1 \/ hist.phase = "held" THEN 0 ELSE @]
    /\ UNCHANGED <<loop, overflow_checks, dots>>

\* bus.memory_read(0x4016)
JoyRead ==
    /\ JoyLive
    /\ \E r \in {BUS_memory_read(cpu.bus, \h4016)} :
        /\ cpu' = [cpu EXCEPT !.bus = r.bus]
        /\ last' = [op |-> "read", ret |-> r.ret]
    /\ hist' = [hist EXCEPT !.steps = @ + 1, !.reads = @ + 1]
    /\ UNCHANGED <<loop, overflow_checks, dots>>

NextJoy ==
    \/ \E status \in ButtonStates : HostButtons(status)
    \/ \E value \in StrobeValues : JoyWrite(value)
    \/ JoyRead

SpecJoy == InitJoy /\ [][NextJoy]_vars

\* bit k of the byte b
ButtonBit(b, k) == (b \div (2 ^ k)) % 2

\* C19: while the strobe is held every read of the latch returns bit 0 of the
\* button-state byte (A) and leaves the read index 0; after the strobe is
\* released the k-th read, k = 1..8, returns bit k-1 of the button-state byte
\* and every later read returns 1; the read index never exceeds 8.
C19_LatchProtocol ==
    [][/\ cpu'.bus.joypad1.button_index <= 8
       /\ last'.op = "read" /\ hist.phase = "held" =>
            /\ last'.ret = ButtonBit(cpu.bus.joypad1.button_status, 0)
            /\ cpu'.bus.joypad1.button_index = 0
       /\ last'.op = "read" /\ hist.phase = "released" =>
            last'.ret = IF hist'.reads <= 8
                        THEN ButtonBit(cpu.bus.joypad1.button_status, hist'.reads - 1)
                        ELSE 1
    ]_vars

\* with the buttons 0xA5 the eighth read after the release returns bit 7 = 1
\* and leaves the index at 8
C19_Witness ==
    /\ hist.phase = "released"
    /\ hist.reads = 8
    /\ last.op = "read"
    /\ last.ret = 1
    /\ cpu.bus.joypad1.button_status = \hA5
    /\ cpu.bus.joypad1.button_index = 8


(***************************************************************************)
(* SpecAdc: one ADC instruction with an immediate operand, for every       *)
(* accumulator, operand and carry                                          *)
(***************************************************************************)
\* No opcode is fetched once MaxAdcCycles CPU cycles have passed.
MaxAdcCycles == 1

\* the flags the instruction starts from, without the carry: none, or the
\* stale overflow, zero and negative of an earlier instruction
AdcFlags == {\h24, \hE6}

\* a session with ADC #0 at 0x0600
AdcSession == StepSession(\h0600, <<\h69, \h00, \h00>>, <<\h00, \h00, \h00>>, \h24)

\* ADC #m at 0x0600, the operand written through the bus, with accumulator a
\* and carry c; hist keeps the three
InitAdc ==
    /\ overflow_checks \in BOOLEAN
    /\ \E a \in 0..255, value \in 0..255, c \in {0, 1}, flags \in AdcFlags :
        /\ cpu = [AdcSession EXCEPT !.register_a = a,
                                    !.register_p = flags + c,
                                    !.bus = BUS_memory_write(@, \h0601, value)]
        /\ hist = [a |-> a, m |-> value, c |-> c]
    /\ loop = "poll"
    /\ last = [op |-> "new", ret |-> FALSE]
    /\ dots = 0

\* the run loop's fetch of the instruction
AdcFetch == cpu.bus.cycles < MaxAdcCycles /\ Fetch

NextAdc == Poll \/ AdcFetch

SpecAdc == InitAdc /\ [][NextAdc]_vars

\* the byte b read as a two's-complement number
Signed(b) == IF b >= 128 THEN b - 256 ELSE b

\* C20: ADC with accumulator A, operand M and carry-in C leaves the
\* accumulator (A + M + C) mod 256, carry set exactly when A + M + C > 255,
\* overflow set exactly when signed A + signed M + C is outside -128..127,
\* zero set exactly when the result is 0 and negative equal to the result's
\* bit 7.
C20_AdcArithmetic ==
    last.op = "fetch" =>
        LET sum == hist.a + hist.m + hist.c
            signed == Signed(hist.a) + Signed(hist.m) + hist.c
            result == sum % 256
        IN  /\ ~Dead(cpu)
            /\ cpu.register_a = result
            /\ (Bit(cpu.register_p, CARRY) = 1) = (sum > 255)
            /\ (Bit(cpu.register_p, OVERFLOW) = 1) = (signed < -128 \/ signed > 127)
            /\ (Bit(cpu.register_p, ZERO) = 1) = (result = 0)
            /\ (Bit(cpu.register_p, NEGATIVE) = 1) = (result >= 128)

\* 0x50 + 0x50: the result 0xA0 is negative, with overflow and without carry
C20_Witness ==
    /\ last.op = "fetch"
    /\ hist = [a |-> \h50, m |-> \h50, c |-> 0]
    /\ cpu.register_a = \hA0
    /\ Bit(cpu.register_p, OVERFLOW) = 1
    /\ Bit(cpu.register_p, CARRY) = 0
    /\ Bit(cpu.register_p, NEGATIVE) = 1


\* the scenario of C21 has run: ADC #0x90 with accumulator 0x50 and no carry
AdcScenario == last.op = "fetch" /\ hist = [a |-> \h50, m |-> \h90, c |-> 0]

\* C21 as stated: with accumulator 0x50 and carry clear, ADC of 0x90 leaves
\* accumulator 0xE0, carry clear and overflow set.
C21_ScenarioOverflowSet ==
    AdcScenario =>
        /\ cpu.register_a = \hE0
        /\ Bit(cpu.register_p, CARRY) = 0
        /\ Bit(cpu.register_p, OVERFLOW) = 1

\* C21, amended: with accumulator 0x50 and carry clear, ADC of 0x90 leaves
\* accumulator 0xE0, carry clear and overflow clear (80 - 112 = -32 is a
\* signed byte), whatever the overflow flag was before.
C21_ScenarioOverflowClear ==
    AdcScenario =>
        /\ ~Dead(cpu)
        /\ cpu.register_a = \hE0
        /\ Bit(cpu.register_p, CARRY) = 0
        /\ Bit(cpu.register_p, OVERFLOW) = 0

\* the scenario run from flags with the overflow flag set
C21_Witness ==
    /\ AdcScenario
    /\ cpu.register_a = \hE0
    /\ Bit(cpu.register_p, NEGATIVE) = 1
    /\ Bit(cpu.register_p, ZERO) = 0
    /\ Bit(cpu.register_p, INTERRUPT_DISABLE) = 1


(***************************************************************************)
(* SpecSbc: one SBC instruction with an immediate operand, for every       *)
(* accumulator, operand and carry                                          *)
(***************************************************************************)
\* a session with SBC #0 at 0x0600
SbcSession == StepSession(\h0600, <<\hE9, \h00, \h00>>, <<\h00, \h00, \h00>>, \h24)

\* SBC #m at 0x0600, the operand written through the bus, with accumulator a
\* and carry c; hist keeps the three
InitSbc ==
    /\ overflow_checks \in BOOLEAN
    /\ \E a \in 0..255, value \in 0..255, c \in {0, 1}, flags \in AdcFlags :
        /\ cpu = [SbcSession EXCEPT !.register_a = a,
                                    !.register_p = flags + c,
                                    !.bus = BUS_memory_write(@, \h0601, value)]
        /\ hist = [a |-> a, m |-> value, c |-> c]
    /\ loop = "poll"
    /\ last = [op |-> "new", ret |-> FALSE]
    /\ dots = 0

\* the run loop's fetch of the instruction
SbcFetch == cpu.bus.cycles < MaxAdcCycles /\ Fetch

NextSbc == Poll \/ SbcFetch

SpecSbc == InitSbc /\ [][NextSbc]_vars

\* the session c with ADC #value in the place of its instruction at 0x0600
WithAdc(c, value) ==
    [c EXCEPT !.bus = BUS_memory_write(BUS_memory_write(@, \h0600, \h69), \h0601, value)]

\* the registers and flags of the session c
Registers(c) ==
    <<c.register_a, c.register_x, c.register_y, c.register_sp, c.register_pc, c.register_p>>

CompareCodes == {\hC5, \hE0, \hC4}
CompareRegister(code) ==
    CASE code = \hC5 -> "register_a"
      [] code = \hE0 -> "register_x"
      [] code = \hC4 -> "register_y"

\* the zero-page address of the operand, and where the operand byte of
\* the instruction at 0x0600 is
CompareCell == \h10
OperandAddress(code) == IF OPCODES_MAP[code].mode = "Immediate" THEN \h0601 ELSE CompareCell

\* the compare instruction at 0x0600, before its registers and operand are set
InitCmp ==
    /\ overflow_checks \in BOOLEAN
    /\ \E code \in CompareCodes :
        /\ cpu = StepSession(\h0600, <<code, CompareCell, \h00>>, <<\h00, \h00, \h00>>, \h24)
        /\ hist = [set |-> FALSE, code |-> code]
    /\ loop = "poll"
    /\ last = [op |-> "new", ret |-> FALSE]
    /\ dots = 0

\* the registers, the flags and the operand are set as the tests set them:
\* the compared register is r, the other two 255 - r, the operand is value
CmpSetup(r, value, flags) ==
    /\ ~hist.set
    /\ cpu' = [cpu EXCEPT !.register_a = 255 - r,
                          !.register_x = 255 - r,
                          !.register_y = 255 - r,
                          ![CompareRegister(hist.code)] = r,
                          !.register_p = flags,
                          !.bus = BUS_memory_write(@, OperandAddress(hist.code), value)]
    /\ hist' = [set |-> TRUE, code |-> hist.code, r |-> r, m |-> value, flags |-> flags]
    /\ last' = [op |-> "setup", ret |-> FALSE]
    /\ UNCHANGED <<loop, overflow_checks, dots>>

\* the run loop's poll and its fetch of the instruction
CmpPoll == hist.set /\ cpu.bus.cycles < MaxAdcCycles /\ Poll
CmpFetch == hist.set /\ cpu.bus.cycles < MaxAdcCycles /\ Fetch

\* the flags before the instruction: carry, overflow, zero and negative all
\* clear or all set
CompareFlags == {\h24, \hE7}

NextCmp ==
    \/ /\ ~hist.set
       /\ \E r \in 0..255, value \in 0..255, flags \in CompareFlags : CmpSetup(r, value, flags)
    \/ CmpPoll
    \/ CmpFetch

SpecCmp == InitCmp /\ [][NextCmp]_vars

\* C23: CMP, CPX and CPY with register value R and operand M set carry exactly
\* when M <= R, zero exactly when R = M and negative to bit 7 of
\* (R - M) mod 256, whatever the carry was, and leave the three registers, the
\* stack pointer, work RAM and the overflow flag as they were.
C23_Compare ==
    [][last'.op = "fetch" =>
         /\ ~Dead(cpu')
         /\ (Bit(cpu'.register_p, CARRY) = 1) = (hist.m <= hist.r)
         /\ (Bit(cpu'.register_p, ZERO) = 1) = (hist.r = hist.m)
         /\ Bit(cpu'.register_p, NEGATIVE) = ((hist.r - hist.m + 256) % 256) \div 128
         /\ Bit(cpu'.register_p, OVERFLOW) = Bit(hist.flags, OVERFLOW)
         /\ cpu'[CompareRegister(hist.code)] = hist.r
         /\ <<cpu'.register_a, cpu'.register_x, cpu'.register_y, cpu'.register_sp>>
              = <<cpu.register_a, cpu.register_x, cpu.register_y, cpu.register_sp>>
         /\ cpu'.bus.cpu_vram = cpu.bus.cpu_vram
         /\ ArrayGet(cpu'.bus.cpu_vram, OperandAddress(hist.code)) = hist.m
    ]_vars

\* CPY with the zero-page operand 0x20 and Y = 0x10, from flags with carry,
\* zero and overflow set: carry and zero cleared, negative set (0xF0),
\* overflow still set
C23_Witness ==
    /\ last.op = "fetch"
    /\ hist.code = \hC4
    /\ hist.r = \h10 /\ hist.m = \h20 /\ hist.flags = \hE7
    /\ cpu.register_y = \h10
    /\ cpu.register_a = \hEF
    /\ Bit(cpu.register_p, CARRY) = 0
    /\ Bit(cpu.register_p, ZERO) = 0
    /\ Bit(cpu.register_p, NEGATIVE) = 1
    /\ Bit(cpu.register_p, OVERFLOW) = 1

(***************************************************************************)
(* SpecStack: one PHP, PLP or RTI, for every flags byte and every byte on  *)
(* the stack                                                               *)
(***************************************************************************)
\* No opcode is fetched once MaxStackCycles CPU cycles have passed.
MaxStackCycles == 1

\* PHP, PLP and RTI
StatusCodes == {\h08, \h28, \h40}

\* the stack pointers the instruction starts from: the reset value and the
\* values at which a push or a pull wraps within the stack page
StackPointers == {\hFD, \hFF, \h00, \h01}

\* the flags a stored byte becomes in the register: break clear, unused set
AsFlags(byte) == SetBit(SetBit(byte, BREAK, FALSE), UNUSED, TRUE)

\* the instruction at 0x0600, before the registers and the stack are set
InitStack ==
    /\ overflow_checks \in BOOLEAN
    /\ \E code \in StatusCodes :
        /\ cpu = StepSession(\h0600, <<code, \h00, \h00>>, <<\h00, \h00, \h00>>, \h24)
        /\ hist = [set |-> FALSE, code |-> code]
    /\ loop = "poll"
    /\ last = [op |-> "new", ret |-> FALSE]
    /\ dots = 0

\* the stack pointer is sp; for PHP the flags register holds byte (as flags),
\* for PLP and RTI it holds flags and byte is the next byte to be pulled
StackSetup(byte, sp, flags) ==
    /\ cpu' = [cpu EXCEPT !.register_sp = sp,
                          !.register_p = IF hist.code = \h08 THEN AsFlags(byte) ELSE flags,
                          !.bus = IF hist.code = \h08 THEN @
                                  ELSE BUS_memory_write(@, STACK + ((sp + 1) % 256), byte)]
    /\ hist' = [set |-> TRUE, code |-> hist.code, byte |-> byte, sp |-> sp]
    /\ last' = [op |-> "setup", ret |-> FALSE]
    /\ UNCHANGED <<loop, overflow_checks, dots>>

\* the run loop's poll and its fetch of the instruction
StackPoll == hist.set /\ cpu.bus.cycles < MaxStackCycles /\ Poll
StackFetch == hist.set /\ cpu.bus.cycles < MaxStackCycles /\ Fetch

NextStack ==
    \/ /\ ~hist.set
       /\ \E byte \in 0..255, sp \in StackPointers, flags \in CompareFlags :
            StackSetup(byte, sp, flags)
    \/ StackPoll
    \/ StackFetch

SpecStack == InitStack /\ [][NextStack]_vars

MaxSeqCycles == 17

\* the program, with the byte value loaded before the last pull
SeqProgram(value) == <<\h48, \h28, \h08, \hA9, value, \h68, \h00>>

\* the values loaded over the accumulator
SeqLoads == {\h00, \h05, \hFF}

\* the bus b with the bytes of program written from address on
RECURSIVE WriteProgram(_, _, _)
WriteProgram(b, address, program) ==
    IF program = <<>> THEN b
    ELSE WriteProgram(BUS_memory_write(b, address, Head(program)), address + 1, Tail(program))

\* the program at 0x0600 with the accumulator a; hist keeps a
InitSeq ==
    /\ overflow_checks \in BOOLEAN
    /\ \E a \in 0..255, value \in SeqLoads :
        /\ cpu = [CPU_new(WriteProgram(BUS_new(Rom16k), \h0600, SeqProgram(value)))
                    EXCEPT !.register_pc = \h0600, !.register_a = a]
        /\ hist = [a |-> a, value |-> value]
    /\ loop = "poll"
    /\ last = [op |-> "new", ret |-> FALSE]
    /\ dots = 0

\* the run loop
SeqPoll == cpu.bus.cycles < MaxSeqCycles /\ Poll
SeqFetch == cpu.bus.cycles < MaxSeqCycles /\ Fetch

NextSeq == SeqPoll \/ SeqFetch

SpecSeq == InitSeq /\ [][NextSeq]_vars

C27_BreakEndsTheRun ==
    [][/\ loop # "ended"
       /\ (loop = "fetch" /\ Peek(cpu.register_pc) = \h00) =>
            /\ loop' = "ended"
            /\ last'.ret = TRUE
            /\ cpu' = [cpu EXCEPT !.register_pc = cpu.register_pc + 1]
    ]_vars

\* the program of SpecSeq has ended at its BRK, after 16 cycles and with the
\* stack pointer back at its reset value
C27_Witness ==
    /\ loop = "ended"
    /\ last = [op |-> "fetch", ret |-> TRUE]
    /\ Peek(\h0606) = \h00
    /\ cpu.register_pc = \h0607
    /\ cpu.bus.cycles = 16
    /\ cpu.bus.ppu.cycles = 48
    /\ hist.a = \hFF

(***************************************************************************)
(* SpecDcp: one DCP (opcode 0xC7) on a zero-page operand, for every        *)
(* operand byte                                                            *)
(***************************************************************************)
\* the accumulators the instruction is run with
DcpAccumulators == {\h00, \h01, \h7F, \h80, \hFF}

\* DCP $10 at 0x0600, before the accumulator and the operand are set
InitDcp ==
    /\ overflow_checks \in BOOLEAN
    /\ cpu = StepSession(\h0600, <<\hC7, CompareCell, \h00>>, <<\h00, \h00, \h00>>, \h24)
    /\ hist = [set |-> FALSE]
    /\ loop = "poll"
    /\ last = [op |-> "new", ret |-> FALSE]
    /\ dots = 0

\* the accumulator is r, the flags are flags and the byte at 0x10 is value
DcpSetup(r, value, flags) ==
    /\ cpu' = [cpu EXCEPT !.register_a = r,
                          !.register_p = flags,
                          !.bus = BUS_memory_write(@, CompareCell, value)]
    /\ hist' = [set |-> TRUE, r |-> r, m |-> value, flags |-> flags]
    /\ last' = [op |-> "setup", ret |-> FALSE]
    /\ UNCHANGED <<loop, overflow_checks, dots>>

\* the run loop's poll and its fetch of the instruction
DcpPoll == hist.set /\ cpu.bus.cycles < MaxStackCycles /\ Poll
DcpFetch == hist.set /\ cpu.bus.cycles < MaxStackCycles /\ Fetch

NextDcp ==
    \/ /\ ~hist.set
       /\ \E r \in DcpAccumulators, value \in 0..255, flags \in CompareFlags :
            DcpSetup(r, value, flags)
    \/ DcpPoll
    \/ DcpFetch

SpecDcp == InitDcp /\ [][NextDcp]_vars

\* C28: DCP on an operand byte M with accumulator A leaves (M - 1) mod 256 in
\* the operand's cell, carry set exactly when that new byte is <= A, zero and
\* negative those of (A - new byte) mod 256, and the accumulator unchanged.
C28_DcpIsDecThenCmp ==
    [][last'.op = "fetch" =>
         \E new \in {(hist.m + 255) % 256} :
            /\ ~Dead(cpu')
            /\ ArrayGet(cpu'.bus.cpu_vram, CompareCell) = new
            /\ (Bit(cpu'.register_p, CARRY) = 1) = (new <= hist.r)
            /\ FlagsFollow(cpu', (hist.r - new + 256) % 256)
            /\ cpu'.register_a = hist.r
    ]_vars

\* DCP of the byte 0x05 with accumulator 0x01 and carry clear: the cell holds
\* 0x00, not 0x04, and carry and zero are set
C28_Witness ==
    /\ last.op = "fetch"
    /\ hist = [set |-> TRUE, r |-> \h01, m |-> \h05, flags |-> \h24]
    /\ ArrayGet(cpu.bus.cpu_vram, CompareCell) = 0
    /\ Bit(cpu.register_p, CARRY) = 1
    /\ Bit(cpu.register_p, ZERO) = 1
    /\ Bit(cpu.register_p, NEGATIVE) = 0
    /\ cpu.register_a = \h01
    /\ cpu.register_pc = \h0602

(***************************************************************************)
(* SpecTable: the lookup of an opcode byte in the descriptor table         *)
(***************************************************************************)
\* a session whose assembler has looked no opcode up yet
InitTable ==
    /\ overflow_checks \in BOOLEAN
    /\ cpu = CPU_new(BUS_new(Rom16k))
    /\ loop = "poll"
    /\ last = [op |-> "new", ret |-> <<>>]
    /\ dots = 0
    /\ hist = [code |-> 0, entries |-> {}]

\* self.opcodes.get(&code): the descriptor found, if any; hist keeps the
\* places of the byte in the table
TableGet(code) ==
    /\ last' = [op |-> "get",
                ret |-> IF code \in DOMAIN OPCODES_MAP THEN <<OPCODES_MAP[code]>> ELSE <<>>]
    /\ hist' = [code |-> code,
                entries |-> {i \in DOMAIN CPUOPSCODES : CPUOPSCODES[i].code = code}]
    /\ UNCHANGED <<cpu, loop, overflow_checks, dots>>

NextTable == \E code \in 0..255 : TableGet(code)

SpecTable == InitTable /\ [][NextTable]_vars

\* C29: every opcode byte 0..255 is found in the descriptor table, at exactly
\* one place of it, with a length of 1, 2 or 3; the table has 256 entries.
C29_OneEntryPerOpcode ==
    /\ Len(CPUOPSCODES) = 256
    /\ last.op = "get" =>
         /\ Len(last.ret) = 1
         /\ Cardinality(hist.entries) = 1
         /\ last.ret[1] = CPUOPSCODES[CHOOSE i \in hist.entries : TRUE]
         /\ last.ret[1].code = hist.code
         /\ last.ret[1].len \in {1, 2, 3}

\* the byte 0x83 is found once, at the last place of the table: *SAX, two
\* bytes long
C29_Witness ==
    /\ last.op = "get"
    /\ hist = [code |-> \h83, entries |-> {256}]
    /\ last.ret[1].mnemonic = "*SAX"
    /\ last.ret[1].len = 2

(***************************************************************************)
(* Cartridge image (cartridges.rs)                                         *)
(***************************************************************************)
NES_TAG == <<\h4E, \h45, \h53, \h1A>>
PRG_ROM_PAGE_SIZE == 16384
CHR_ROM_PAGE_SIZE == 8192

\* `vec[from..to]` of a byte vector, with its bounds check, and `.to_vec()`
VecSlice(vec, from, to) ==
    IF from > to \/ to > vec.len THEN [ok |-> FALSE, val |-> [len |-> 0, bytes |-> ZeroArray]]
    ELSE [ok |-> TRUE,
          val |-> [len |-> to - from,
                   bytes |-> [i \in {j - from : j \in {k \in DOMAIN vec.bytes : k >= from /\ k < to}}
                                |-> vec.bytes[i + from]]]]

\* the three outcomes of ROM::new: a cartridge, an error value, a panic
RomOk(rom) == [kind |-> "Ok", rom |-> rom, message |-> ""]
RomErr(message) == [kind |-> "Err", rom |-> None, message |-> message]
RomPanic(message) == [kind |-> "panic", rom |-> None, message |-> message]

\* a faulty parser that looks at the vertical flag before the four-screen flag
ROM_new_VerticalFirst(binary_data) ==
    IF binary_data.len < 4 THEN RomPanic("range end index 4 out of range for slice")
    ELSE IF [i \in 1..4 |-> ArrayGet(binary_data.bytes, i - 1)] # NES_TAG
    THEN RomErr("File is not in iNES file format")
    ELSE IF binary_data.len < 8 THEN RomPanic("index out of bounds: binary_data")
    ELSE
    LET byte6 == ArrayGet(binary_data.bytes, 6)
        byte7 == ArrayGet(binary_data.bytes, 7)
        mapper == BitOr(BitAnd(byte7, \hF0), byte6 \div 16)
        ines_version == BitAnd(byte7 \div 4, 3)
        four_screen == BitAnd(byte6, 8) # 0
        vertical_mirroring == BitAnd(byte6, 1) # 0
        screen_mirroring == CASE vertical_mirroring -> "Vertical"
                              [] four_screen -> "FourScreen"
                              [] OTHER -> "Horizontal"
        prg_rom_size == ArrayGet(binary_data.bytes, 4) * PRG_ROM_PAGE_SIZE
        chr_rom_size == ArrayGet(binary_data.bytes, 5) * CHR_ROM_PAGE_SIZE
        skip_trainer == BitAnd(byte6, 4) # 0
        prg_rom_start == 16 + (IF skip_trainer THEN 512 ELSE 0)
        chr_rom_start == prg_rom_start + prg_rom_size
    IN  IF ines_version # 0 THEN RomErr("NES2.0 format is not supported")
        ELSE Bind(VecSlice(binary_data, prg_rom_start, chr_rom_start), LAMBDA prg_rom :
             Bind(VecSlice(binary_data, chr_rom_start, chr_rom_start + chr_rom_size), LAMBDA chr_rom :
                IF ~prg_rom.ok \/ ~chr_rom.ok
                THEN RomPanic("range end index out of range for slice")
                ELSE RomOk([prg_rom |-> prg_rom.val,
                            chr_rom |-> chr_rom.val,
                            mapper |-> mapper,
                            screen_mirroring |-> screen_mirroring])))

\* ROM::new
ROM_new(binary_data) ==
    IF binary_data.len < 4 THEN RomPanic("range end index 4 out of range for slice")
    ELSE IF [i \in 1..4 |-> ArrayGet(binary_data.bytes, i - 1)] # NES_TAG
    THEN RomErr("File is not in iNES file format")
    ELSE IF binary_data.len < 8 THEN RomPanic("index out of bounds: binary_data")
    ELSE
    LET byte6 == ArrayGet(binary_data.bytes, 6)
        byte7 == ArrayGet(binary_data.bytes, 7)
        mapper == BitOr(BitAnd(byte7, \hF0), byte6 \div 16)
        ines_version == BitAnd(byte7 \div 4, 3)
        four_screen == BitAnd(byte6, 8) # 0
        vertical_mirroring == BitAnd(byte6, 1) # 0
        screen_mirroring == CASE four_screen -> "FourScreen"
                              [] vertical_mirroring -> "Vertical"
                              [] OTHER -> "Horizontal"
        prg_rom_size == ArrayGet(binary_data.bytes, 4) * PRG_ROM_PAGE_SIZE
        chr_rom_size == ArrayGet(binary_data.bytes, 5) * CHR_ROM_PAGE_SIZE
        skip_trainer == BitAnd(byte6, 4) # 0
        prg_rom_start == 16 + (IF skip_trainer THEN 512 ELSE 0)
        chr_rom_start == prg_rom_start + prg_rom_size
    IN  IF ines_version # 0 THEN RomErr("NES2.0 format is not supported")
        ELSE Bind(VecSlice(binary_data, prg_rom_start, chr_rom_start), LAMBDA prg_rom :
             Bind(VecSlice(binary_data, chr_rom_start, chr_rom_start + chr_rom_size), LAMBDA chr_rom :
                IF ~prg_rom.ok \/ ~chr_rom.ok
                THEN RomPanic("range end index out of range for slice")
                ELSE RomOk([prg_rom |-> prg_rom.val,
                            chr_rom |-> chr_rom.val,
                            mapper |-> mapper,
                            screen_mirroring |-> screen_mirroring])))

(***************************************************************************)
(* SpecCart: a cartridge image is parsed and, if a cartridge comes of it,  *)
(* a session is built on it                                                *)
(***************************************************************************)
\* the header bytes tried: the tag and the tag with one byte changed, the
\* page counts, the flags of byte 6 and byte 7
CartTags == {NES_TAG} \cup {[NES_TAG EXCEPT ![k] = \h00] : k \in 1..4}
CartPages == {0, 1, 2}
CartFlags6 == {\h00, \h01, \h04, \h08, \h09, \h0D, \h31}
CartFlags7 == {\h00, \h04, \h08, \h0C, \hF0}

\* the image is one byte short of what its header declares, exact, or longer;
\* or shorter than its header
CartSlack == {-1, 0, 1}
CartShort == {3, 7}

\* the first program byte and the first graphics byte of the images
PrgMark == \hA1
ChrMark == \hA2

\* the bytes the header declares after it: the trainer block if flagged, the
\* program pages and the graphics pages
Declared(byte4, byte5, byte6) ==
    (IF Bit(byte6, 2) = 1 THEN 512 ELSE 0) + byte4 * PRG_ROM_PAGE_SIZE + byte5 * CHR_ROM_PAGE_SIZE

\* an image of len bytes with the header given, zero but for the two marks
Image(tag, byte4, byte5, byte6, byte7, len) ==
    LET prg_rom_start == 16 + (IF Bit(byte6, 2) = 1 THEN 512 ELSE 0)
        all == <<tag[1], tag[2], tag[3], tag[4], byte4, byte5, byte6, byte7>>
        header == {<<i - 1, all[i]>> : i \in 1..8}
        marks == {<<prg_rom_start, IF byte4 > 0 THEN PrgMark ELSE ChrMark>>,
                  <<prg_rom_start + byte4 * PRG_ROM_PAGE_SIZE, IF byte5 > 0 THEN ChrMark ELSE 0>>}
        cells == {c \in header \cup marks : c[1] < len /\ c[2] # 0}
    IN  [len |-> len,
         bytes |-> [i \in {c[1] : c \in cells} |-> (CHOOSE c \in cells : c[1] = i)[2]]]

\* no session yet; hist is the image and its header
InitCart ==
    /\ overflow_checks \in BOOLEAN
    /\ cpu = None
    /\ loop = "load"
    /\ last = [op |-> "new", ret |-> "", message |-> ""]
    /\ dots = 0
    /\ \E tag \in CartTags, byte4 \in CartPages, byte5 \in CartPages,
          byte6 \in CartFlags6, byte7 \in CartFlags7 :
        \E len \in {16 + Declared(byte4, byte5, byte6) + s : s \in CartSlack} \cup CartShort :
            hist = [image |-> Image(tag, byte4, byte5, byte6, byte7, len),
                    tag |-> tag, byte4 |-> byte4, byte5 |-> byte5,
                    byte6 |-> byte6, byte7 |-> byte7]

\* the loader: ROM::new, and BUS::new and CPU::new on the cartridge it gives
CartLoad ==
    /\ loop = "load"
    /\ \E r \in {ROM_new(hist.image)} :
        /\ last' = [op |-> "ROM::new", ret |-> r.kind, message |-> r.message]
        /\ loop' = CASE r.kind = "Ok" -> "poll" [] r.kind = "Err" -> "error" [] OTHER -> "panic"
        /\ cpu' = IF r.kind = "Ok" THEN CPU_new(BUS_new(r.rom)) ELSE None
    /\ UNCHANGED <<overflow_checks, dots, hist>>

NextCart == CartLoad

SpecCart == InitCart /\ [][NextCart]_vars

\* C30: parsing gives an error value and no cartridge when bytes 0-3 are not
\* the tag 4E 45 53 1A or when bits 2-3 of byte 7 are not both zero; for every
\* other header followed by the data it declares (the trainer block if
\* flagged, the program pages, the graphics pages) it gives a cartridge with
\* those pages, four-screen when bit 3 of byte 6 is set, otherwise vertical
\* when bit 0 is set, otherwise horizontal.
C30_CartridgeParsing ==
    loop # "load" =>
        LET len == hist.image.len
            tagged == hist.tag = NES_TAG
            version == (hist.byte7 \div 4) % 4
        IN  /\ (len >= 4 /\ ~tagged) =>
                 loop = "error" /\ cpu = None /\ last.ret = "Err"
            /\ (len >= 8 /\ tagged /\ version # 0) =>
                 loop = "error" /\ cpu = None /\ last.ret = "Err"
            /\ (tagged /\ version = 0 /\ len >= 16 + Declared(hist.byte4, hist.byte5, hist.byte6)) =>
                 /\ loop = "poll" /\ last.ret = "Ok"
                 /\ cpu.bus.ppu.mirroring
                      = CASE Bit(hist.byte6, 3) = 1 -> "FourScreen"
                          [] Bit(hist.byte6, 0) = 1 -> "Vertical"
                          [] OTHER -> "Horizontal"
                 /\ cpu.bus.prg_rom.len = hist.byte4 * PRG_ROM_PAGE_SIZE
                 /\ cpu.bus.ppu.chr_rom.len = hist.byte5 * CHR_ROM_PAGE_SIZE
                 /\ hist.byte4 > 0 => ArrayGet(cpu.bus.prg_rom.bytes, 0) = PrgMark
                 /\ hist.byte5 > 0 => ArrayGet(cpu.bus.ppu.chr_rom.bytes, 0) = ChrMark

\* the header with both the four-screen and the vertical flag, and a trainer:
\* a four-screen cartridge of two program pages and one graphics page
C30_Witness ==
    /\ loop = "poll"
    /\ hist.tag = NES_TAG
    /\ hist.byte6 = \h0D
    /\ hist.byte7 = \hF0
    /\ hist.image.len = 16 + 512 + 2 * PRG_ROM_PAGE_SIZE + CHR_ROM_PAGE_SIZE
    /\ cpu.bus.ppu.mirroring = "FourScreen"
    /\ cpu.bus.prg_rom.len = 32768
    /\ ArrayGet(cpu.bus.ppu.chr_rom.bytes, 0) = ChrMark


(***************************************************************************)
(* SpecLoad: load, reset and run on a freshly constructed CPU              *)
(* (CPU::load_and_run is load, then reset, then run)                       *)
(***************************************************************************)
\* the loop `for i in 0..(program.len() as u16)` of CPU::load from index i on
RECURSIVE LoadBytes(_, _, _)
LoadBytes(c, program, i) ==
    IF i >= Len(program) \/ Dead(c) THEN c
    ELSE LoadBytes(CPU_memory_write(c, \h0600 + i, program[i + 1]), program, i + 1)

\* CPU::load
CPU_load(c, program) ==
    Bind(LoadBytes(c, program, 0), LAMBDA c1 : CPU_memory_write_u16(c1, \hFFFC, \h0600))

\* the longest run of INX in a program
MaxIncrements == 8

\* the programs of the tests of lib.rs, the empty program, and INX k times
LoadPrograms ==
    { <<\hA9, \h05, \h00>>, <<\hA9, \h00, \h00>>, <<\hA9, \h0A, \hAA, \h00>>,
      <<\hA9, \hC0, \hAA, \hE8, \h00>>, <<\h00>>, <<>> }
    \cup {[i \in 1..k |-> \hE8] \o <<\h00>> : k \in 1..MaxIncrements}

\* a cartridge with program at 0x8000 and the reset vector pointing at it
LoadRom(program) == Rom(PrgRom({<<\h8000, program>>, <<\hFFFC, <<\h00, \h80>>>>}))

\* CPU::new on a bus with a cartridge
InitLoad ==
    /\ overflow_checks \in BOOLEAN
    /\ \E program \in LoadPrograms : cpu = CPU_new(BUS_new(LoadRom(program)))
    /\ loop = "new"
    /\ last = [op |-> "new", ret |-> FALSE]
    /\ dots = 0
    /\ hist = [program |-> <<>>]

\* CPU::load(program), alone or as the first call of load_and_run
Load(program) ==
    /\ loop = "new"
    /\ cpu' = CPU_load(cpu, program)
    /\ loop' = IF Dead(cpu') THEN "panic" ELSE "loaded"
    /\ last' = [op |-> "load", ret |-> FALSE]
    /\ hist' = [program |-> program]
    /\ UNCHANGED <<overflow_checks, dots>>

\* CPU::reset, on the new CPU or after load; run follows it
Reset ==
    /\ loop \in {"new", "loaded"}
    /\ cpu' = CPU_reset(cpu)
    /\ loop' = IF Dead(cpu') THEN "panic" ELSE "poll"
    /\ last' = [op |-> "reset", ret |-> FALSE]
    /\ UNCHANGED <<overflow_checks, dots, hist>>

NextLoad == (\E program \in LoadPrograms : Load(program)) \/ Reset \/ Poll \/ Fetch

SpecLoad == InitLoad /\ [][NextLoad]_vars

\* C31: load(program) leaves the program bytes at 0x0600 onward and 0x0600 in
\* the reset vector at 0xFFFC, so that a reset after it gives program counter
\* 0x0600, A = X = Y = 0, SP = 0xFD and flags 0x24, and the run can start.
C31_LoadThenReset ==
    last.op = "load" =>
        /\ loop = "loaded"
        /\ \A i \in DOMAIN hist.program : Peek(\h0600 + i - 1) = hist.program[i]
        /\ PeekWord(\hFFFC) = \h0600
        /\ \E c \in {CPU_reset(cpu)} :
            /\ ~Dead(c)
            /\ c.register_pc = \h0600
            /\ c.register_a = 0 /\ c.register_x = 0 /\ c.register_y = 0
            /\ c.register_sp = \hFD /\ c.register_p = \h24

\* load of the program A9 05 00 has written the three bytes to RAM and has
\* ended the session on the write of the reset vector
C31_Witness ==
    /\ last.op = "load"
    /\ hist.program = <<\hA9, \h05, \h00>>
    /\ loop = "panic"
    /\ cpu.bus.panic = "Attempt to write to Cartridge ROM space"
    /\ ArrayGet(cpu.bus.cpu_vram, \h0600) = \hA9
    /\ ArrayGet(cpu.bus.cpu_vram, \h0602) = \h00
    /\ ArrayGet(cpu.bus.cpu_vram, \h0601) = \h05

\* C32: a scroll-register write resets the address register's write toggle to
\* "high byte next": the address-register write that directly follows a
\* scroll write sets the high byte (masked to the 14-bit range) and leaves
\* the low byte as it was.
C32_ScrollWriteResetsToggle ==
    [][(last.op = "write_to_scroll" /\ last'.op = "write_to_ppu_address") =>
        /\ cpu'.bus.ppu.address.high = BitAnd(last'.value, \h3F)
        /\ cpu'.bus.ppu.address.low = cpu.bus.ppu.address.low
    ]_vars

\* one address write (the high byte 0x23), then one scroll write: the toggle
\* still expects the low byte
C32_Witness ==
    /\ last.op = "write_to_scroll"
    /\ hist.writes = 1
    /\ cpu.bus.ppu.address.high = \h23
    /\ cpu.bus.ppu.scroll.scroll_x = ScrollValue
    /\ cpu.bus.ppu.scroll.latch
    /\ ~cpu.bus.ppu.address.high_pointer

\* C33: a data read or write with the VRAM address in 0x3000-0x3EFF completes
\* normally and uses the nametable cell of the address 0x1000 lower: the write
\* stores its byte there, the read loads the read buffer from there.
C33_MirrorOfNametables ==
    [][(/\ last'.op \in {"read_data", "write_to_data"}
        /\ AddressRegister_get(cpu.bus.ppu.address) \in \h3000..\h3EFF) =>
        LET p == cpu.bus.ppu
            q == cpu'.bus.ppu
            cell == mirror_vram_address(p.mirroring, AddressRegister_get(p.address) - \h1000)
        IN  /\ q.panic = NoPanic
            /\ last'.op = "write_to_data" => ArrayGet(q.vram, cell) = last'.value
            /\ last'.op = "read_data" => q.internal_data_buf = ArrayGet(p.vram, cell)
    ]_vars

\* the address is set to 0x3023 and a byte is written to the data register
C33_Witness ==
    /\ last.op = "write_to_data"
    /\ hist.steps = 3
    /\ AddressRegister_get(cpu.bus.ppu.address) = \h3023
    /\ cpu.bus.ppu.panic = "not implemented: address shouldn't be used"
    /\ ArrayGet(cpu.bus.ppu.vram, \h0023) = 0

\* C34: whatever opcode byte the run loop fetches, the handler interpret
\* dispatches resolves an operand address only with a mode that address
\* resolution supports: no instruction ends in the panic "mode is not
\* supported".
C34_ModeAlwaysSupported ==
    cpu.panic # "mode is not supported" /\ cpu.bus.panic # "mode is not supported"


\* JMP $0680 at 0x0600, whose descriptor has no addressing mode and whose
\* handler reads its operand itself, has run
C34_Witness ==
    /\ last.op = "fetch"
    /\ loop = "poll"
    /\ Peek(\h0600) = \h4C
    /\ PeekWord(\h0601) = \h0680
    /\ cpu.register_pc = \h0680
    /\ cpu.panic = NoPanic


(***************************************************************************)
(* SpecPush: the four stack operations of the CPU, from every stack        *)
(* pointer, on RAM whose bytes tell their addresses apart                  *)
(***************************************************************************)
\* The stack operations made from one stack pointer.
MaxPushSteps == 2

\* the bytes and words pushed
PushBytes == {\h00, \hA5}
PushWords == {\h0000, \h1234, \hFF00, \hABCD}

\* RAM around the stack page: the byte at address a is a mod 251, so that the
\* bytes of the page's two ends and of the cells next to the page differ
StackRam == [a \in \h00FE..\h0201 |-> a % 251]

\* a new CPU; hist.sp is the stack pointer before the last operation
InitPush ==
    /\ overflow_checks \in BOOLEAN
    /\ cpu = [CPU_new(BUS_new(EmptyRom)) EXCEPT !.bus.cpu_vram = StackRam]
    /\ loop = "new"
    /\ last = [op |-> "new", ret |-> 0, value |-> 0]
    /\ dots = 0
    /\ hist = [steps |-> 0, sp |-> STACK_RESET]

\* the pub field register_sp is assigned
PushSetup(sp) ==
    /\ loop = "new"
    /\ cpu' = [cpu EXCEPT !.register_sp = sp]
    /\ loop' = "ready"
    /\ hist' = [hist EXCEPT !.sp = sp]
    /\ UNCHANGED <<overflow_checks, last, dots>>

PushLive == loop = "ready" /\ hist.steps < MaxPushSteps /\ ~Dead(cpu)

\* cpu.stack_push(value)
StackPush(value) ==
    /\ PushLive
    /\ cpu' = stack_push(cpu, value)
    /\ last' = [op |-> "stack_push", ret |-> 0, value |-> value]
    /\ hist' = [steps |-> hist.steps + 1, sp |-> cpu.register_sp]
    /\ UNCHANGED <<overflow_checks, loop, dots>>

\* cpu.stack_pop()
StackPop ==
    /\ PushLive
    /\ \E r \in {stack_pop(cpu)} :
        /\ cpu' = r.cpu
        /\ last' = [op |-> "stack_pop", ret |-> r.ret, value |-> 0]
    /\ hist' = [steps |-> hist.steps + 1, sp |-> cpu.register_sp]
    /\ UNCHANGED <<overflow_checks, loop, dots>>

\* cpu.stack_push_u16(value)
StackPushU16(value) ==
    /\ PushLive
    /\ cpu' = stack_push_u16(cpu, value)
    /\ last' = [op |-> "stack_push_u16", ret |-> 0, value |-> value]
    /\ hist' = [steps |-> hist.steps + 1, sp |-> cpu.register_sp]
    /\ UNCHANGED <<overflow_checks, loop, dots>>

\* cpu.stack_pop_u16()
StackPopU16 ==
    /\ PushLive
    /\ \E r \in {stack_pop_u16(cpu)} :
        /\ cpu' = r.cpu
        /\ last' = [op |-> "stack_pop_u16", ret |-> r.ret, value |-> 0]
    /\ hist' = [steps |-> hist.steps + 1, sp |-> cpu.register_sp]
    /\ UNCHANGED <<overflow_checks, loop, dots>>

NextPush ==
    \/ \E sp \in 0..255 : PushSetup(sp)
    \/ \E value \in PushBytes : StackPush(value)
    \/ StackPop
    \/ \E value \in PushWords : StackPushU16(value)
    \/ StackPopU16

SpecPush == InitPush /\ [][NextPush]_vars

\* the stack cell of stack pointer sp advanced by k (modulo 256)
StackCell(sp, k) == STACK + ((sp + k + 256) % 256)

\* RAM is the same in ram1 and ram2 outside the addresses of cells
SameBut(ram1, ram2, cells) ==
    \A a \in (DOMAIN ram1 \cup DOMAIN ram2) \ cells : ArrayGet(ram1, a) = ArrayGet(ram2, a)

\* C35: a push writes at 0x0100+SP, then SP goes down by one modulo 256; a pop
\* takes SP up by one modulo 256, then reads at 0x0100+SP; a 16-bit push
\* writes the high byte, then the low byte; a 16-bit pop reads the low byte,
\* then the high byte; a 16-bit pop directly after a 16-bit push returns the
\* pushed word and restores SP, from every SP; nothing outside 0x0100-0x01FF
\* is written, and nothing outside it is read.
C35_StackDiscipline ==
    [][LET sp == cpu.register_sp
           ram == cpu.bus.cpu_vram
           ram2 == cpu'.bus.cpu_vram
       IN  /\ ~Dead(cpu')
           /\ last'.op = "stack_push" =>
                /\ ArrayGet(ram2, StackCell(sp, 0)) = last'.value
                /\ cpu'.register_sp = (sp + 255) % 256
                /\ SameBut(ram, ram2, {StackCell(sp, 0)})
           /\ last'.op = "stack_pop" =>
                /\ cpu'.register_sp = (sp + 1) % 256
                /\ last'.ret = ArrayGet(ram, StackCell(sp, 1))
                /\ ram2 = ram
           /\ last'.op = "stack_push_u16" =>
                /\ ArrayGet(ram2, StackCell(sp, 0)) = last'.value \div 256
                /\ ArrayGet(ram2, StackCell(sp, -1)) = last'.value % 256
                /\ cpu'.register_sp = (sp + 254) % 256
                /\ SameBut(ram, ram2, {StackCell(sp, 0), StackCell(sp, -1)})
           /\ last'.op = "stack_pop_u16" =>
                /\ cpu'.register_sp = (sp + 2) % 256
                /\ last'.ret = ArrayGet(ram, StackCell(sp, 1)) + 256 * ArrayGet(ram, StackCell(sp, 2))
                /\ ram2 = ram
           /\ (last.op = "stack_push_u16" /\ last'.op = "stack_pop_u16") =>
                /\ last'.ret = last.value
                /\ cpu'.register_sp = hist.sp
    ]_vars

\* the word 0xABCD pushed from SP = 0x00, across the wrap, and popped again:
\* high byte at 0x0100, low byte at 0x01FF
C35_Witness ==
    /\ last.op = "stack_pop_u16"
    /\ last.ret = \hABCD
    /\ hist.steps = 2
    /\ cpu.register_sp = \h00
    /\ ArrayGet(cpu.bus.cpu_vram, \h0100) = \hAB
    /\ ArrayGet(cpu.bus.cpu_vram, \h01FF) = \hCD
    /\ ArrayGet(cpu.bus.cpu_vram, \h0200) = \h0200 % 251


(***************************************************************************)
(* SpecIndex: one data write or data read at every nametable address and   *)
(* every palette address, for each mirroring mode a cartridge can have     *)
(***************************************************************************)
\* the three values of Mirroring
AllMirrorModes == {"Vertical", "Horizontal", "FourScreen"}

\* the VRAM addresses the palette arms of write_to_data and read_data take
PaletteAddresses == \h3F00..\h3FFF

\* a session on a cartridge of each mirroring mode; hist.address is the VRAM
\* address the session will access
InitIndex ==
    /\ overflow_checks \in BOOLEAN
    /\ \E mirroring \in AllMirrorModes :
         cpu = CPU_new(BUS_new([EmptyRom EXCEPT !.screen_mirroring = mirroring]))
    /\ loop = "poll"
    /\ last = [op |-> "new", ret |-> 0]
    /\ dots = 0
    /\ \E address \in NametableAddresses \cup PaletteAddresses :
         hist = [steps |-> 0, address |-> address]

\* ppu.write_to_ppu_address(high byte), ppu.write_to_ppu_address(low byte)
IndexWriteAddress ==
    /\ hist.steps \in {0, 1}
    /\ \E value \in {IF hist.steps = 0 THEN hist.address \div 256 ELSE hist.address % 256} :
         /\ cpu' = [cpu EXCEPT !.bus.ppu = PPU_write_to_ppu_address(@, value)]
         /\ last' = [op |-> "write_to_ppu_address", ret |-> 0, value |-> value]
    /\ hist' = [hist EXCEPT !.steps = @ + 1]
    /\ UNCHANGED <<loop, overflow_checks, dots>>

\* ppu.write_to_data(value) at the address
IndexWriteData(value) ==
    /\ hist.steps = 2
    /\ cpu' = [cpu EXCEPT !.bus.ppu = PPU_write_to_data(@, value)]
    /\ last' = [op |-> "write_to_data", ret |-> 0, value |-> value]
    /\ hist' = [hist EXCEPT !.steps = @ + 1]
    /\ UNCHANGED <<loop, overflow_checks, dots>>

\* ppu.read_data() at the address
IndexReadData ==
    /\ hist.steps = 2
    /\ \E r \in {PPU_read_data(cpu.bus.ppu)} :
        /\ cpu' = [cpu EXCEPT !.bus.ppu = r.ppu]
        /\ last' = [op |-> "read_data", ret |-> r.ret]
    /\ hist' = [hist EXCEPT !.steps = @ + 1]
    /\ UNCHANGED <<loop, overflow_checks, dots>>

NextIndex == IndexWriteAddress \/ IndexWriteData(DataValue) \/ IndexReadData

SpecIndex == InitIndex /\ [][NextIndex]_vars

\* C36: for each mirroring mode and each VRAM address in 0x2000-0x2FFF the
\* nametable index computed for the address is below 2048, and the data read
\* or write at the address does not index outside the nametable memory.
C36_IndexInsideNametables ==
    hist.address \in NametableAddresses =>
        /\ mirror_vram_address(cpu.bus.ppu.mirroring, hist.address) < VramSize
        /\ cpu.bus.ppu.panic = NoPanic

\* a four-screen cartridge: the data write at 0x2800 has indexed cell 2048
C36_Witness ==
    /\ last.op = "write_to_data"
    /\ cpu.bus.ppu.mirroring = "FourScreen"
    /\ hist.address = \h2800
    /\ AddressRegister_get(cpu.bus.ppu.address) = \h2800
    /\ mirror_vram_address("FourScreen", \h2800) = 2048
    /\ cpu.bus.ppu.panic = "index out of bounds: vram"


\* the palette index the palette arms compute for a VRAM address
PaletteIndex(address) ==
    IF address \in {\h3F10, \h3F14, \h3F18, \h3F1C} THEN (address - \h10) - \h3F00
    ELSE address - \h3F00

\* C37: a data read or write with the VRAM address in 0x3F00-0x3FFF uses a
\* palette index in 0..31 and completes normally: the write leaves its byte in
\* the palette memory, the read returns the palette byte.
C37_PaletteIndexInside ==
    (hist.address \in PaletteAddresses /\ hist.steps = 3) =>
        /\ cpu.bus.ppu.panic = NoPanic
        /\ DOMAIN cpu.bus.ppu.palette_table \subseteq 0..(PaletteSize - 1)
        /\ AddressRegister_get(cpu.bus.ppu.address) = (hist.address + 1) % \h4000
        /\ last.op = "write_to_data" => ArrayGet(cpu.bus.ppu.palette_table, PaletteIndex(hist.address)) = DataValue

\* the data write at 0x3F20 has indexed palette cell 32
C37_Witness ==
    /\ last.op = "write_to_data"
    /\ hist.address = \h3F20
    /\ AddressRegister_get(cpu.bus.ppu.address) = \h3F20
    /\ PaletteIndex(hist.address) = PaletteSize
    /\ cpu.bus.ppu.panic = "index out of bounds: palette_table"


\* C38: a bus write to an address below 0x8000 never ends the session, in
\* whatever state of RAM, PPU and joypad it is made.
C38_OnlyRomWritesAreFatal ==
    [][(last'.op = "memory_write" /\ last'.address < \h8000) => ~BusDead(cpu'.bus)]_vars

\* the first operation of a session is a write to the mirror 0x200A of the
\* PPU status register
C38_Witness ==
    /\ hist.steps = 1
    /\ last.op = "memory_write"
    /\ last.address = \h200A
    /\ cpu.bus.panic = "attempt to write to PPU status register"
    /\ cpu.bus.ppu.panic = NoPanic


(***************************************************************************)
(* SpecFlags: from every flags byte a session can hold, an interrupt       *)
(* entry or not, then the instruction of any opcode and what follows it    *)
(***************************************************************************)
\* No opcode is fetched once MaxFlagCycles CPU cycles have passed.
MaxFlagCycles == 16

\* the flags bytes with unused set and break clear
SessionFlags == {f \in 0..255 : Bit(f, UNUSED) = 1 /\ Bit(f, BREAK) = 0}

\* the bytes at the top of the stack, which PLP and RTI pull into the flags:
\* break and unused clear, one of them set, both set
StackedBytes == {\h00, \h10, \h20, \hFF}

\* the operand byte of the instruction: a zero-page address, the low byte of
\* an absolute address, a displacement
FlagOperand == \h10

\* CPU::new; hist.set says that the session has been set up
InitFlags ==
    /\ overflow_checks \in BOOLEAN
    /\ cpu = CPU_new(BUS_new(EmptyRom))
    /\ loop = "new"
    /\ last = [op |-> "new", ret |-> FALSE]
    /\ dots = 0
    /\ hist = [set |-> FALSE]

\* the PPU just after the tick that started vblank with NMI generation on
VblankPpu(p) ==
    [p EXCEPT !.control = SetBit(@, GENERATE_NMI, TRUE),
              !.status = SetBit(@, VBLANK_STARTED, TRUE),
              !.scanline = VblankLine,
              !.nmi_interrupt = Some(1)]

\* the instruction code at 0x0600 and byte at the top of the stack are
\* written through the bus, the pub registers are assigned; with nmi the PPU
\* has a request pending
FlagsSetup(code, flags, byte, nmi) ==
    /\ cpu' = [cpu EXCEPT
                 !.register_pc = \h0600,
                 !.register_p = flags,
                 !.bus = Bind(BUS_memory_write(BUS_memory_write(BUS_memory_write(@,
                                \h0600, code), \h0601, FlagOperand),
                                STACK + STACK_RESET + 1, byte),
                              LAMBDA b : IF nmi THEN [b EXCEPT !.ppu = VblankPpu(@)] ELSE b)]
    /\ loop' = "poll"
    /\ hist' = [set |-> TRUE, code |-> code, byte |-> byte, nmi |-> nmi]
    /\ last' = [op |-> "setup", ret |-> FALSE]
    /\ UNCHANGED <<overflow_checks, dots>>

\* the run loop's poll and fetch
FlagsPoll == cpu.bus.cycles < MaxFlagCycles /\ Poll
FlagsFetch == cpu.bus.cycles < MaxFlagCycles /\ Fetch

NextFlags ==
    \/ /\ loop = "new"
       /\ \E code \in 0..255, flags \in SessionFlags, byte \in StackedBytes, nmi \in BOOLEAN :
            FlagsSetup(code, flags, byte, nmi)
    \/ Reset
    \/ FlagsPoll
    \/ FlagsFetch

SpecFlags == InitFlags /\ [][NextFlags]_vars

C40_CountersAndVblankWindow ==
    LET p == cpu.bus.ppu IN
    /\ p.scanline \in 0..(LinesPerFrame - 1)
    /\ p.cycles \in 0..(DotsPerLine - 1)
    /\ (is_in_vblank(p.status) \/ p.nmi_interrupt # None) =>
            p.scanline \in VblankLine..(LinesPerFrame - 1)

\* on the last scanline, one 255-dot tick before the frame ends, a control
\* write has raised a request while vblank-started is set
C40_Witness ==
    /\ last.op = "write_to_control"
    /\ cpu.bus.ppu.scanline = LinesPerFrame - 1
    /\ cpu.bus.ppu.cycles = 249
    /\ cpu.bus.ppu.cycles + MaxU8 >= DotsPerLine
    /\ is_in_vblank(cpu.bus.ppu.status)
    /\ cpu.bus.ppu.nmi_interrupt = Some(1)
    /\ cpu.bus.ppu.scroll.latch

====
